---- MODULE Spec2Model ----
(***************************************************************************)
(* golintmu: a static analyzer for inconsistent mutex locking.  The model  *)
(* follows one analyzer pass (run) over a bounded family of input          *)
(* packages: the SSA walk of every source function, guard inference,       *)
(* requirement propagation, concurrency reachability, the acquire-helper   *)
(* analysis and the reporting phases.                                      *)
(***************************************************************************)
EXTENDS Integers, Sequences, FiniteSets, TLC

VARIABLES
    srcFuncs,   \* the package under analysis: a sequence of SSA functions
    pc,         \* the phase of run() the pass is in
    fnIdx,      \* index of the function collectObservations is walking
    stack,      \* the walkBlock activation records of the current walk
    wctx,       \* walkContext of the current walk
    ctx,        \* passContext: every side table of the pass
    diags,      \* what pass.Reportf has received, in order
    log,        \* history: one entry per walkBlock call (for stating claims)
    resolver    \* one call of resolveLockRef: the SSA values, the operand,
                \* and what the call returned

vars == <<srcFuncs, pc, fnIdx, stack, wctx, ctx, diags, log, resolver>>

(***************************************************************************)
(* Small helpers for Go maps and slices.                                   *)
(***************************************************************************)
EmptyMap == [x \in {} |-> 0]

\* The one element of a singleton set.  An intermediate result that several
\* places use is bound as the element of a singleton, so it is computed once.
The(S) == CHOOSE r \in S : TRUE

MapPut(m, k, v) == [x \in (DOMAIN m) \cup {k} |-> IF x = k THEN v ELSE m[x]]

MapDelete(m, k) == [x \in (DOMAIN m) \ {k} |-> m[x]]

Range(s) == {s[i] : i \in DOMAIN s}

RECURSIVE SetToSeq(_)
SetToSeq(S) ==
    IF S = {} THEN <<>>
    ELSE LET x == CHOOSE y \in S : TRUE IN <<x>> \o SetToSeq(S \ {x})

Reverse(seq) == [i \in DOMAIN seq |-> seq[Len(seq) + 1 - i]]

\* The keys of a Go map in the order a range statement visits them: the order
\* differs from one run to the next.
MapOrders == {"ascending", "descending"}

RangeOf(keys, order) ==
    IF order = "ascending" THEN SetToSeq(keys) ELSE Reverse(SetToSeq(keys))

(***************************************************************************)
(* Types of the analysed package.  One named struct type S with two mutex  *)
(* fields and two data fields; SSA values x and y are pointers to S.       *)
(***************************************************************************)
NoPos == 0

StructTypes == {"S"}

\* A struct type T of the imported package "up", with the fields of S, and the
\* one function of that package the analysed package calls.
ImportedTypes == {"T", "up.S"}

\* Obj().Name(): the unqualified name of a struct type.  The imported package
\* declares a type named S too.
TypeName(structType) == IF structType = "up.S" THEN "S" ELSE structType

ImportedFn == -1

MutexFieldIndexes == {0, 1}

DataFieldIndexes == {2, 3}

Bases == {"x", "y", "u", "v", "t"}

BaseType(base) ==
    IF base \in {"u", "v"} THEN "up.S" ELSE IF base = "t" THEN "T" ELSE "S"

isMutexType(structType, fieldIdx) == fieldIdx \in MutexFieldIndexes

lockRefOf(base, fieldIndex) == [base |-> base, fieldIndex |-> fieldIndex]

NoRef == lockRefOf("none", 0)

\* lockRefToMutexFieldKey: the type-scoped key of a lock reference.
lockRefToMutexFieldKey(ref) ==
    [StructType |-> BaseType(ref.base), FieldIndex |-> ref.fieldIndex]

\* lockRefName / mutexFieldKeyName: "StructName.fieldName".
lockRefName(ref) == <<TypeName(BaseType(ref.base)), ref.fieldIndex>>

mutexFieldKeyName(mfk) == <<TypeName(mfk.StructType), mfk.FieldIndex>>

(***************************************************************************)
(* Lock-reference resolution.  The SSA values of a function are numbered   *)
(* in definition order (blocks in reverse postorder); 0 stands for nil.    *)
(* A value is                                                              *)
(*   kind   "Alloc" (any value that is neither of the others) | "UnOp" (a  *)
(*          dereference, token.MUL) | "FieldAddr" | "Phi"                  *)
(*   X      the operand of an UnOp or a FieldAddr                          *)
(*   Edges  the incoming values of a Phi                                   *)
(*   Field  the field index of a FieldAddr                                 *)
(* The resolution threads st: the visited set of one unwrapSSAValue call,  *)
(* the phis and dereferenced values expanded so far, in order, and the     *)
(* steps left before the resolution is given up as not ending.             *)
(***************************************************************************)
Value(kind, X, Edges, Field) == [kind |-> kind, X |-> X, Edges |-> Edges, Field |-> Field]

MaxSteps == 16

NoResolution == [phase |-> "none"]

RECURSIVE unwrapSSAValueVisited(_, _, _)

RECURSIVE resolvePhiIfUniform(_, _, _)

\* The loop of resolvePhiIfUniform over phi.Edges.
RECURSIVE uniqueEdge(_, _, _, _)
uniqueEdge(values, edges, unique, st) ==
    IF edges = <<>> THEN [value |-> unique, st |-> st]
    ELSE The({IF unique = 0 THEN uniqueEdge(values, Tail(edges), e.value, e.st)
              ELSE IF unique # e.value THEN [value |-> 0, st |-> e.st]
              ELSE uniqueEdge(values, Tail(edges), unique, e.st) :
                 e \in {unwrapSSAValueVisited(values, Head(edges), st)}})

\* resolvePhiIfUniform that expands a phi it has expanded before.
resolvePhiIfUniformRevisiting(values, phi, st) ==
    uniqueEdge(values, values[phi].Edges, 0,
               [st EXCEPT !.visited = @ \cup {phi}, !.phis = Append(@, phi)])

resolvePhiIfUniform(values, phi, st) ==
    IF phi \in st.visited THEN [value |-> 0, st |-> st]
    ELSE uniqueEdge(values, values[phi].Edges, 0,
                    [st EXCEPT !.visited = @ \cup {phi}, !.phis = Append(@, phi)])

unwrapSSAValueVisited(values, v, st) ==
    IF st.steps = 0 \/ values[v].kind # "Phi" THEN [value |-> v, st |-> st]
    ELSE The({IF r.value # 0 THEN unwrapSSAValueVisited(values, r.value, r.st)
              ELSE [value |-> v, st |-> r.st] :
                 r \in {resolvePhiIfUniform(values, v, [st EXCEPT !.steps = @ - 1])}})

\* unwrapSSAValue: a fresh visited set for every call.
unwrapSSAValue(values, v, st) ==
    unwrapSSAValueVisited(values, v, [st EXCEPT !.visited = {}])

\* The loop of canonicalizeBase.
RECURSIVE canonicalizeLoop(_, _, _, _)
canonicalizeLoop(values, v, seen, st) ==
    IF st.steps = 0 \/ v \in seen \/ values[v].kind # "UnOp"
    THEN [value |-> v, st |-> st]
    ELSE The({canonicalizeLoop(values, r.value, seen \cup {v}, r.st) :
                 r \in {unwrapSSAValue(values, values[v].X,
                                       [st EXCEPT !.steps = @ - 1,
                                                  !.derefs = Append(@, v)])}})

canonicalizeBase(values, v, st) ==
    The({canonicalizeLoop(values, r.value, {}, r.st) :
            r \in {unwrapSSAValue(values, v, st)}})

\* resolveLockRef: nil (kind "none") unless v unwraps to the address of a
\* mutex field.
resolveLockRef(values, v) ==
    LET start == [visited |-> {}, phis |-> <<>>, derefs |-> <<>>, steps |-> MaxSteps]
    IN The({IF values[u.value].kind # "FieldAddr"
                  \/ ~isMutexType("S", values[u.value].Field)
            THEN [kind |-> "none", base |-> 0, fieldIndex |-> 0, st |-> u.st]
            ELSE The({[kind |-> "fieldLock", base |-> b.value,
                       fieldIndex |-> values[u.value].Field, st |-> b.st] :
                         b \in {canonicalizeBase(values, values[u.value].X, u.st)}}) :
               u \in {unwrapSSAValue(values, v, start)}})

(***************************************************************************)
(* lockState: the held locks (a map keyed by lockRef, here the set of its  *)
(* heldLock values) and the references with a pending deferred unlock.     *)
(***************************************************************************)
newLockState == [held |-> {}, deferredUnlocks |-> {}]

HeldRefs(ls) == {h.ref : h \in ls.held}

HeldLockOf(ls, ref) == CHOOSE h \in ls.held : h.ref = ref

lock(ls, ref, exclusive, pos) ==
    [ls EXCEPT !.held = {h \in @ : h.ref # ref}
                          \cup {[ref |-> ref, exclusive |-> exclusive, pos |-> pos]}]

unlock(ls, ref) == [ls EXCEPT !.held = {h \in @ : h.ref # ref}]

deferUnlock(ls, ref) == [ls EXCEPT !.deferredUnlocks = @ \cup {ref}]

fork(ls) == [held |-> ls.held, deferredUnlocks |-> ls.deferredUnlocks]

equalHeld(ls, other) ==
    /\ Cardinality(HeldRefs(ls)) = Cardinality(HeldRefs(other))
    /\ \A k \in HeldRefs(ls) : k \in HeldRefs(other)
    /\ Cardinality(ls.deferredUnlocks) = Cardinality(other.deferredUnlocks)
    /\ \A k \in ls.deferredUnlocks : k \in other.deferredUnlocks

intersect(ls, other) ==
    [held |-> {v \in ls.held :
                 \E o \in other.held : o.ref = v.ref /\ o.exclusive = v.exclusive},
     deferredUnlocks |-> {k \in ls.deferredUnlocks : k \in other.deferredUnlocks}]

\* sort.Slice by fieldIndex; references with equal fieldIndex keep one of the
\* orders the map iteration can give (here: by base).
RefLess(a, b) ==
    \/ a.fieldIndex < b.fieldIndex
    \/ a.fieldIndex = b.fieldIndex /\ a.base = "x" /\ b.base # "x"

RECURSIVE SortRefs(_)
SortRefs(S) ==
    IF S = {} THEN <<>>
    ELSE LET m == CHOOSE a \in S : \A b \in S \ {a} : RefLess(a, b)
         IN <<m>> \o SortRefs(S \ {m})

\* diff without its second loop.
diffOneSided(ls, other) ==
    [onlyInSelf |-> SortRefs(HeldRefs(ls) \ HeldRefs(other)), onlyInOther |-> <<>>]

diff(ls, other) ==
    [onlyInSelf  |-> SortRefs(HeldRefs(ls) \ HeldRefs(other)),
     onlyInOther |-> SortRefs(HeldRefs(other) \ HeldRefs(ls))]

(***************************************************************************)
(* The input.  An SSA function is a sequence of basic blocks (block 1 is   *)
(* Blocks[0]); a block is its instructions and its successors.  An         *)
(* instruction is one record shape for all kinds:                          *)
(*   op      "Call" | "Defer" | "Return" | "Store" | "UnOp" | "Go" |       *)
(*           "Publish" (a MapUpdate whose value, or a Store to a target    *)
(*           that is not a local allocation whose value, is ref.base) |    *)
(*           "Other" (any instruction the walker does not dispatch on)     *)
(*   method  "Lock" | "RLock" | "Unlock" | "RUnlock" for a mutex method,   *)
(*           "" otherwise                                                  *)
(*   ref     the resolved lock reference (mutex methods) or the resolved   *)
(*           field access (Store, UnOp)                                    *)
(*   callee  the static callee (index into srcFuncs), 0 when none          *)
(*   nargs   number of call arguments (receiver included)                  *)
(*   pos     token.Pos, NoPos when the instruction has none                *)
(***************************************************************************)
Instr(op, method, ref, callee, nargs, pos) ==
    [op |-> op, method |-> method, ref |-> ref, callee |-> callee,
     nargs |-> nargs, pos |-> pos]

isLockMethod(name) == name \in {"Lock", "Unlock", "RLock", "RUnlock"}

isLockAcquire(name) == name \in {"Lock", "RLock"}

isExclusiveLock(name) == name = "Lock"

isExclusiveUnlock(name) == name = "Unlock"

Succs(fn, b) == fn.blocks[b].succs

\* len(block.Preds): one entry per incoming edge.
NumPreds(fn, b) ==
    Cardinality({<<a, i>> \in (DOMAIN fn.blocks) \X (1..2) :
                    i \in DOMAIN Succs(fn, a) /\ Succs(fn, a)[i] = b})

\* Blocks reachable from the entry block without passing through block d.
RECURSIVE ReachAvoiding(_, _, _)
ReachAvoiding(blocks, d, seen) ==
    LET more == {t \in DOMAIN blocks :
                    /\ t # d
                    /\ t \notin seen
                    /\ \E a \in seen : t \in Range(blocks[a].succs)}
    IN IF more = {} THEN seen ELSE ReachAvoiding(blocks, d, seen \cup more)

\* BasicBlock.Dominates (reflexive), as the SSA package computes it from the CFG.
DominatorPairs(blocks) ==
    {<<d, b>> \in (DOMAIN blocks) \X (DOMAIN blocks) :
        b \notin ReachAvoiding(blocks, d, IF d = 1 THEN {} ELSE {1})}

\* isBackEdge that recognises no edge.
isBackEdgeNever(fn, from, to) == FALSE

\* isBackEdge: the edge from -> to goes to a dominator of from.
isBackEdge(fn, from, to) == <<to, from>> \in fn.dom

\* blockPos: position of the first non-Phi instruction with a valid position.
blockPos(block) ==
    LET idx == {i \in DOMAIN block.instrs : block.instrs[i].pos # NoPos}
    IN IF idx = {} THEN NoPos
       ELSE block.instrs[CHOOSE i \in idx : \A j \in idx : i <= j].pos

(***************************************************************************)
(* The analysis pass: whether the analyzer has fact types registered, and  *)
(* the facts the passes on the imported packages exported for the imported *)
(* function.  A MutexRef names a mutex field by package path, type name    *)
(* and field index.                                                        *)
(***************************************************************************)
MutexRef(pkgPath, typeName, fieldIndex) ==
    [PkgPath |-> pkgPath, TypeName |-> typeName, FieldIndex |-> fieldIndex]

FuncLockFact(requires, acquires, acquiresTransitive) ==
    [Requires |-> requires, Acquires |-> acquires,
     AcquiresTransitive |-> acquiresTransitive]

NoUpstream ==
    [factTypes |-> FALSE, fieldGuardFacts |-> [x \in {} |-> 0],
     funcLockFacts |-> [x \in {} |-> 0], concurrentFacts |-> {}]

\* The packages the analysed package imports directly, and their types.
DirectImports == {"up"}

ScopeOf(pkgPath) == IF pkgPath = "p" THEN StructTypes
                    ELSE IF pkgPath = "up" THEN ImportedTypes ELSE {}

NumFields == 4

(***************************************************************************)
(* passContext, as run() constructs it.                                    *)
(***************************************************************************)
newPassContext ==
    [observations               |-> EmptyMap,
     guards                     |-> EmptyMap,
     observedAt                 |-> {},
     callSites                  |-> <<>>,
     funcFacts                  |-> EmptyMap,
     unlockOfUnlockedCandidates |-> <<>>,
     lockLeakCandidates         |-> EmptyMap,
     deferredLockTypoReported   |-> {},
     lockOrderGraph             |-> EmptyMap,
     concurrentFuncs            |-> [isNil |-> TRUE, funcs |-> {}],
     annotations                |-> [concurrent |-> {}, ignored |-> {}, nolint |-> {}],
     pass                       |-> NoUpstream]

newWalkContext ==
    [entryStates |-> EmptyMap, exitStates |-> EmptyMap,
     inconsistentLockReported |-> {}]

newFuncLockFacts ==
    [Requires |-> {}, Acquires |-> {}, AcquiresTransitive |-> {},
     Releases |-> {}, ReturnsHolding |-> {}]

\* getOrCreateFuncFacts: the fact table with a record for fn.
getOrCreateFuncFacts(funcFacts, fn) ==
    IF fn \in DOMAIN funcFacts THEN funcFacts
    ELSE MapPut(funcFacts, fn, newFuncLockFacts)

AddFact(c, fn, set, mfk) ==
    LET ff == getOrCreateFuncFacts(c.funcFacts, fn)
    IN [c EXCEPT !.funcFacts = [ff EXCEPT ![fn][set] = @ \cup {mfk}]]

\* Source line of a position: every instruction sits on a line of its own,
\* below two lines that are blank unless a comment is on them.
LineOf(pos) == 3 * pos

\* The line of the comment itself.
suppressedLineOfComment(line) == line

\* suppressedLine := pos.Line + 1
suppressedLine(line) == line + 1

\* isSuppressed: //mu:ignore on the function or //mu:nolint before the line.
isSuppressed(c, fn, pos) ==
    \/ fn \in c.annotations.ignored
    \/ pos # NoPos /\ LineOf(pos) \in c.annotations.nolint

\* One diagnostic handed to pass.Reportf.  pos, text, name and arg are what the
\* user sees (position and formatted message); fn, block and from record where
\* the walker was when it reported.
Diag(pos, text, name, arg, fn, block, from) ==
    [pos |-> pos, text |-> text, name |-> name, arg |-> arg,
     fn |-> fn, block |-> block, from |-> from]

\* The shared shape of reportDoubleLock, reportRecursiveRLock, ...: nothing is
\* reported at a suppressed site.
Reportf(st, fn, pos, text, name, arg) ==
    IF isSuppressed(st.ctx, fn, pos) THEN st
    ELSE [st EXCEPT !.diags = Append(@, Diag(pos, text, name, arg, fn, 0, 0))]

(***************************************************************************)
(* Instruction processing.  st is the triple the walker threads through a  *)
(* block: the lock state of the current path, the pass tables and the      *)
(* diagnostics reported so far.                                            *)
(***************************************************************************)
reportDoubleLock(st, fn, pos, ref) ==
    Reportf(st, fn, pos, "is already held when locking", lockRefName(ref), 0)

reportRecursiveRLock(st, fn, pos, ref) ==
    Reportf(st, fn, pos, "recursive RLock", lockRefName(ref), 0)

reportLockUpgradeAttempt(st, fn, pos, ref) ==
    Reportf(st, fn, pos, "lock upgrade can deadlock", lockRefName(ref), 0)

reportMismatchedUnlock(st, fn, pos, ref, wasExclusive, unlockMethod) ==
    Reportf(st, fn, pos,
            IF wasExclusive THEN "exclusively locked but RUnlock called"
                            ELSE "read-locked but Unlock called",
            lockRefName(ref), 0)

reportDeferredLockInsteadOfUnlock(st, fn, pos, ref, methodName) ==
    Reportf(st, fn, pos, "defer Lock will deadlock", lockRefName(ref), 0)

\* lockOrderGraph.addEdge: deduplicated by (From, To, Fn).
addEdge(g, edge) ==
    IF /\ edge.From \in DOMAIN g
       /\ \E i \in DOMAIN g[edge.From] :
             g[edge.From][i].To = edge.To /\ g[edge.From][i].Fn = edge.Fn
    THEN g
    ELSE MapPut(g, edge.From,
                Append(IF edge.From \in DOMAIN g THEN g[edge.From] ELSE <<>>, edge))

RECURSIVE addEdges(_, _)
addEdges(g, edges) ==
    IF edges = <<>> THEN g ELSE addEdges(addEdge(g, Head(edges)), Tail(edges))

recordLockAcquisition(st, fn, ref) ==
    [st EXCEPT !.ctx = AddFact(@, fn, "Acquires", lockRefToMutexFieldKey(ref))]

checkAndRecordLockAcquire(st, fn, pos, ref, exclusive) ==
    LET alreadyHeld == ref \in HeldRefs(st.ls)
        existing    == HeldLockOf(st.ls, ref)
        s1 == IF ~alreadyHeld THEN st
              ELSE IF exclusive /\ existing.exclusive
                   THEN reportDoubleLock(st, fn, pos, ref)
              ELSE IF ~exclusive /\ ~existing.exclusive
                   THEN reportRecursiveRLock(st, fn, pos, ref)
              ELSE IF exclusive /\ ~existing.exclusive
                   THEN reportLockUpgradeAttempt(st, fn, pos, ref)
              ELSE reportDoubleLock(st, fn, pos, ref)
        edges == {[From |-> lockRefToMutexFieldKey(heldRef),
                   To   |-> lockRefToMutexFieldKey(ref),
                   Pos  |-> pos,
                   Fn   |-> fn] : heldRef \in HeldRefs(st.ls) \ {ref}}
        s2 == [s1 EXCEPT !.ctx.lockOrderGraph = addEdges(@, SetToSeq(edges))]
        s3 == recordLockAcquisition(s2, fn, ref)
    IN [s3 EXCEPT !.ls = lock(@, ref, exclusive, pos)]

checkAndRecordUnlock(st, fn, pos, ref, exclusiveUnlock) ==
    LET held     == ref \in HeldRefs(st.ls)
        existing == HeldLockOf(st.ls, ref)
        s1 == IF held
              THEN IF existing.exclusive /\ ~exclusiveUnlock
                   THEN reportMismatchedUnlock(st, fn, pos, ref, TRUE, "RUnlock")
                   ELSE IF ~existing.exclusive /\ exclusiveUnlock
                   THEN reportMismatchedUnlock(st, fn, pos, ref, FALSE, "Unlock")
                   ELSE st
              ELSE [st EXCEPT !.ctx.unlockOfUnlockedCandidates =
                                 Append(@, [Fn |-> fn, Pos |-> pos, Ref |-> ref])]
        s2 == [s1 EXCEPT !.ls = unlock(@, ref)]
    IN [s2 EXCEPT !.ctx = AddFact(@, fn, "Releases", lockRefToMutexFieldKey(ref))]

\* normalizeLockState: struct type -> held mutex refs (field index and mode).
normalizeLockState(ls) ==
    [t \in {BaseType(h.ref.base) : h \in ls.held} |->
        {[FieldIndex |-> h.ref.fieldIndex, Exclusive |-> h.exclusive] :
            h \in {g \in ls.held : BaseType(g.ref.base) = t}}]

\* The call site recorded without its receiver.
recordCallSiteNoReceiver(st, caller, callee, pos, receiver) ==
    [st EXCEPT !.ctx.callSites =
        Append(@, [Caller |-> caller, Callee |-> callee, Pos |-> pos,
                   HeldByStructType |-> normalizeLockState(st.ls),
                   ReceiverValue |-> NoRef.base])]

recordCallSite(st, caller, callee, pos, receiver) ==
    [st EXCEPT !.ctx.callSites =
        Append(@, [Caller |-> caller, Callee |-> callee, Pos |-> pos,
                   HeldByStructType |-> normalizeLockState(st.ls),
                   ReceiverValue |-> receiver])]

processCall(st, fn, call) ==
    IF isLockMethod(call.method)
    THEN IF call.ref = NoRef THEN st
         ELSE IF isLockAcquire(call.method)
         THEN checkAndRecordLockAcquire(st, fn, call.pos, call.ref,
                                        isExclusiveLock(call.method))
         ELSE checkAndRecordUnlock(st, fn, call.pos, call.ref,
                                   isExclusiveUnlock(call.method))
    ELSE IF call.callee = 0 \/ call.nargs = 0 THEN st
    ELSE recordCallSite(st, fn, call.callee, call.pos, call.ref.base)

checkDeferredUnlockMismatch(st, fn, d) ==
    IF d.ref = NoRef \/ ~isLockMethod(d.method) \/ isLockAcquire(d.method) THEN st
    ELSE IF d.ref \notin HeldRefs(st.ls) THEN st
    ELSE LET existing == HeldLockOf(st.ls, d.ref)
             exclusiveUnlock == isExclusiveUnlock(d.method)
         IN IF existing.exclusive /\ ~exclusiveUnlock
            THEN reportMismatchedUnlock(st, fn, d.pos, d.ref, TRUE, "RUnlock")
            ELSE IF ~existing.exclusive /\ exclusiveUnlock
            THEN reportMismatchedUnlock(st, fn, d.pos, d.ref, FALSE, "Unlock")
            ELSE st

checkDeferredLockInsteadOfUnlock(st, fn, d) ==
    IF d.ref = NoRef \/ ~isLockMethod(d.method) \/ ~isLockAcquire(d.method) THEN st
    ELSE LET s1 == reportDeferredLockInsteadOfUnlock(st, fn, d.pos, d.ref, d.method)
         IN [s1 EXCEPT !.ctx.deferredLockTypoReported =
                          @ \cup {[fn |-> fn, ref |-> d.ref]}]

recordDeferredUnlock(st, fn, d) ==
    IF d.ref = NoRef \/ ~isLockMethod(d.method) \/ isLockAcquire(d.method) THEN st
    ELSE LET s1 == [st EXCEPT !.ls = deferUnlock(@, d.ref)]
         IN [s1 EXCEPT !.ctx = AddFact(@, fn, "Releases",
                                       lockRefToMutexFieldKey(d.ref))]

\* Leak candidates that take every held lock, deferred unlock or not.
LeakCandidatesOfHeld(fn, retPos, ls) ==
    {[Fn |-> fn, Pos |-> retPos, Ref |-> hl.ref, AcquirePos |-> hl.pos] : hl \in ls.held}

\* Leak candidates of one return: every held lock without a deferred unlock.
LeakCandidatesOf(fn, retPos, ls) ==
    {[Fn |-> fn, Pos |-> retPos, Ref |-> hl.ref, AcquirePos |-> hl.pos] :
        hl \in {h \in ls.held : h.ref \notin ls.deferredUnlocks}}

checkReturnWithHeldLocks(st, fn, ret) ==
    LET cleared    == MapDelete(st.ctx.lockLeakCandidates, ret.pos)
        candidates == LeakCandidatesOf(fn, ret.pos, st.ls)
    IN [st EXCEPT !.ctx.lockLeakCandidates =
           IF candidates = {} THEN cleared
           ELSE MapPut(cleared, ret.pos, candidates)]

sameBaseMutexFields(base, ls) ==
    {[FieldIndex |-> hl.ref.fieldIndex, Exclusive |-> hl.exclusive] :
        hl \in {h \in ls.held : h.ref.base = base}}

\* The observation appended at every visit of the access.
recordObservationAlways(st, fn, acc, isRead) ==
    LET key == [StructType |-> BaseType(acc.ref.base),
                FieldIndex |-> acc.ref.fieldIndex]
        obs == [SameBaseMutexFields |-> sameBaseMutexFields(acc.ref.base, st.ls),
                IsRead |-> isRead, Func |-> fn, Pos |-> acc.pos]
        old == IF key \in DOMAIN st.ctx.observations
               THEN st.ctx.observations[key] ELSE <<>>
    IN IF acc.ref = NoRef \/ isMutexType(key.StructType, key.FieldIndex) THEN st
       ELSE [st EXCEPT !.ctx.observations = MapPut(@, key, Append(old, obs))]

\* processStore / processRead: one observation per (field, position, kind).
recordObservation(st, fn, acc, isRead) ==
    LET key == [StructType |-> BaseType(acc.ref.base),
                FieldIndex |-> acc.ref.fieldIndex]
        ok2 == [field |-> key, pos |-> acc.pos, isRead |-> isRead]
        obs == [SameBaseMutexFields |-> sameBaseMutexFields(acc.ref.base, st.ls),
                IsRead |-> isRead, Func |-> fn, Pos |-> acc.pos]
        old == IF key \in DOMAIN st.ctx.observations
               THEN st.ctx.observations[key] ELSE <<>>
    IN IF acc.ref = NoRef \/ isMutexType(key.StructType, key.FieldIndex) THEN st
       ELSE IF ok2 \in st.ctx.observedAt THEN st
       ELSE [st EXCEPT !.ctx.observedAt = @ \cup {ok2},
                       !.ctx.observations = MapPut(@, key, Append(old, obs))]

processStore(st, fn, store) == recordObservation(st, fn, store, FALSE)

processRead(st, fn, unop) == recordObservation(st, fn, unop, TRUE)

processInstruction(st, fn, instr) ==
    IF instr.op = "Call" THEN processCall(st, fn, instr)
    ELSE IF instr.op = "Defer"
    THEN recordDeferredUnlock(
             checkDeferredLockInsteadOfUnlock(
                 checkDeferredUnlockMismatch(st, fn, instr), fn, instr), fn, instr)
    ELSE IF instr.op = "Return" THEN checkReturnWithHeldLocks(st, fn, instr)
    ELSE IF instr.op = "Store" THEN processStore(st, fn, instr)
    ELSE IF instr.op = "UnOp" THEN processRead(st, fn, instr)
    ELSE st

RECURSIVE processInstrs(_, _, _)
processInstrs(st, fn, instrs) ==
    IF instrs = <<>> THEN st
    ELSE processInstrs(processInstruction(st, fn, Head(instrs)), fn, Tail(instrs))

(***************************************************************************)
(* reportInconsistentLockState: one report per lock held in exactly one of *)
(* the two states, all at the position of the block.                       *)
(***************************************************************************)
RECURSIVE InconsistentDiags(_, _, _, _, _)
InconsistentDiags(refs, pos, fn, block, from) ==
    IF refs = <<>> THEN <<>>
    ELSE <<Diag(pos, "inconsistent lock state", lockRefName(Head(refs)), 0,
                fn, block, from)>>
         \o InconsistentDiags(Tail(refs), pos, fn, block, from)

reportInconsistentLockState(c, d, fn, block, from, stateA, stateB) ==
    LET df  == diff(stateA, stateB)
        pos == blockPos(srcFuncs[fn].blocks[block])
    IN IF pos = NoPos THEN d
       ELSE IF isSuppressed(c, fn, pos) THEN d
       ELSE d \o InconsistentDiags(df.onlyInSelf \o df.onlyInOther,
                                   pos, fn, block, from)

(***************************************************************************)
(* walkBlock up to its loop over the successors: the entry-state check,    *)
(* the merge, the inconsistent-branch report, the block's instructions and *)
(* the exit state.  The result says whether the call went on to the        *)
(* successors (proceeds) and with which state.                             *)
(*                                                                         *)
(* On the merge path the code stores merged as the entry state and walks   *)
(* the block with the same *lockState (ssawalk.go:57-58), so what the      *)
(* block's instructions do to ls is done to the stored entry state too.    *)
(***************************************************************************)
\* markReported without the assignment.
markReportedNever(w, block) == w

\* wctx.inconsistentLockReported[block] = true
markReported(w, block) ==
    [w EXCEPT !.inconsistentLockReported = @ \cup {block}]

walkBlock(fn, block, from, ls, w, c, d) ==
    LET visited   == block \in DOMAIN w.entryStates
        prevEntry == w.entryStates[block]
        merged    == intersect(prevEntry, ls)
        doReport  == /\ block \notin w.inconsistentLockReported
                     /\ from # 0
                     /\ NumPreds(srcFuncs[fn], block) > 1
                     /\ ~isBackEdge(srcFuncs[fn], from, block)
        d1 == IF doReport
              THEN reportInconsistentLockState(c, d, fn, block, from, prevEntry, ls)
              ELSE d
        w1 == IF doReport THEN markReported(w, block) ELSE w
        instrs == srcFuncs[fn].blocks[block].instrs
    IN IF visited /\ equalHeld(ls, prevEntry)
       THEN [proceeds |-> FALSE, outcome |-> "same", reportCall |-> FALSE,
             nreport |-> 0,
             wctx |-> w, ctx |-> c, diags |-> d, ls |-> ls, startLs |-> ls]
       ELSE IF visited /\ equalHeld(merged, prevEntry)
       THEN [proceeds |-> FALSE, outcome |-> "converged", reportCall |-> doReport,
             nreport |-> Len(d1) - Len(d),
             wctx |-> w1, ctx |-> c, diags |-> d1, ls |-> ls, startLs |-> ls]
       ELSE IF visited
       THEN LET st == processInstrs([ls |-> merged, ctx |-> c, diags |-> d1],
                                    fn, instrs)
            IN [proceeds |-> TRUE, outcome |-> "merged", reportCall |-> doReport,
                nreport |-> Len(d1) - Len(d),
                wctx |-> [w1 EXCEPT
                            !.entryStates = MapPut(@, block, st.ls),
                            !.exitStates  = MapPut(@, block, fork(st.ls))],
                ctx |-> st.ctx, diags |-> st.diags, ls |-> st.ls,
                startLs |-> merged]
       ELSE LET st == processInstrs([ls |-> ls, ctx |-> c, diags |-> d], fn, instrs)
            IN [proceeds |-> TRUE, outcome |-> "first", reportCall |-> FALSE,
                nreport |-> 0,
                wctx |-> [w EXCEPT
                            !.entryStates = MapPut(@, block, fork(ls)),
                            !.exitStates  = MapPut(@, block, fork(st.ls))],
                ctx |-> st.ctx, diags |-> st.diags, ls |-> st.ls,
                startLs |-> ls]

\* What decides the course of a walkBlock call: its arguments and the walk
\* context it finds.  A call that finds exactly what a call still on the stack
\* found re-enters the same computation: the recursion has no base case and
\* ends in the runtime's stack overflow.
CallConfig(block, from, ls, w) ==
    [block |-> block, from |-> from, ls |-> ls,
     entryStates |-> w.entryStates, reported |-> w.inconsistentLockReported]

Frame(block, ls, cfg) == [block |-> block, ls |-> ls, next |-> 1, cfg |-> cfg]

LogEntry(fn, block, from, ls, w, r) ==
    [fn |-> fn, block |-> block, from |-> from, inbound |-> ls,
     visited |-> block \in DOMAIN w.entryStates,
     stored |-> IF block \in DOMAIN w.entryStates
                THEN w.entryStates[block] ELSE newLockState,
     flagged |-> block \in w.inconsistentLockReported,
     outcome |-> r.outcome, reportCall |-> r.reportCall,
     after |-> r.wctx.entryStates[block],
     startLs |-> r.startLs, endLs |-> r.ls,
     ndiags |-> r.nreport]

\* One call walkBlock(wctx, block, fromBlock, ls) of function fnIdx.
Call(block, from, ls, rest) ==
    LET cfg == CallConfig(block, from, ls, wctx)
        r   == walkBlock(fnIdx, block, from, ls, wctx, ctx, diags)
    IN IF \E i \in DOMAIN stack : stack[i].cfg = cfg
       THEN /\ pc' = "overflow"
            /\ UNCHANGED <<resolver, srcFuncs, fnIdx, stack, wctx, ctx, diags, log>>
       ELSE /\ wctx' = r.wctx
            /\ ctx' = r.ctx
            /\ diags' = r.diags
            /\ log' = Append(log, LogEntry(fnIdx, block, from, ls, wctx, r))
            /\ stack' = IF r.proceeds
                        THEN Append(rest, Frame(block, r.ls, cfg))
                        ELSE rest
            /\ UNCHANGED <<resolver, srcFuncs, pc, fnIdx>>

\* walkFunction: start the walk of the next source function at Blocks[0].
WalkFunction ==
    /\ pc = "collectObservations"
    /\ stack = <<>>
    /\ fnIdx <= Len(srcFuncs)
    /\ DOMAIN wctx.entryStates = {}
    /\ IF Len(srcFuncs[fnIdx].blocks) = 0
       THEN /\ fnIdx' = fnIdx + 1
            /\ UNCHANGED <<resolver, srcFuncs, pc, stack, wctx, ctx, diags, log>>
       ELSE Call(1, 0, newLockState, <<>>)

\* The loop over block.Succs: the next recursive call, on a fork of ls.
WalkSuccessor ==
    /\ pc = "collectObservations"
    /\ stack # <<>>
    /\ LET top == stack[Len(stack)]
           succs == Succs(srcFuncs[fnIdx], top.block)
       IN /\ top.next <= Len(succs)
          /\ Call(succs[top.next], top.block, fork(top.ls),
                  [stack EXCEPT ![Len(stack)].next = @ + 1])

\* walkBlock returns to its caller; the outermost return ends walkFunction.
WalkReturn ==
    /\ pc = "collectObservations"
    /\ stack # <<>>
    /\ LET top == stack[Len(stack)]
       IN top.next > Len(Succs(srcFuncs[fnIdx], top.block))
    /\ stack' = SubSeq(stack, 1, Len(stack) - 1)
    /\ IF Len(stack) = 1
       THEN fnIdx' = fnIdx + 1 /\ wctx' = newWalkContext
       ELSE UNCHANGED <<fnIdx, wctx>>
    /\ UNCHANGED <<resolver, srcFuncs, pc, ctx, diags, log>>

(***************************************************************************)
(* The bounded family of inputs.  A function is built from a CFG shape     *)
(* (the successors of every block) and, per block, a short list of         *)
(* instruction codes; positions are laid out one instruction per line.     *)
(***************************************************************************)
xa == lockRefOf("x", 0)

xb == lockRefOf("x", 1)

PosAt(f, blk, k) == f * 1000 + blk * 10 + k

xf == lockRefOf("x", 2)

Decode(code, f, pos) ==
    CASE code = "La"  -> Instr("Call", "Lock", xa, 0, 1, pos)
      [] code = "Ra"  -> Instr("Call", "RLock", xa, 0, 1, pos)
      [] code = "Ua"  -> Instr("Call", "Unlock", xa, 0, 1, pos)
      [] code = "Lb"  -> Instr("Call", "Lock", xb, 0, 1, pos)
      [] code = "Rb"  -> Instr("Call", "RLock", xb, 0, 1, pos)
      [] code = "Ub"  -> Instr("Call", "Unlock", xb, 0, 1, pos)
      [] code = "Ly"  -> Instr("Call", "Lock", lockRefOf("y", 0), 0, 1, pos)
      [] code = "Uy"  -> Instr("Call", "Unlock", lockRefOf("y", 0), 0, 1, pos)
      [] code = "Lu"  -> Instr("Call", "Lock", lockRefOf("u", 0), 0, 1, pos)
      [] code = "Uu"  -> Instr("Call", "Unlock", lockRefOf("u", 0), 0, 1, pos)
      [] code = "Lv"  -> Instr("Call", "Lock", lockRefOf("v", 0), 0, 1, pos)
      [] code = "Uv"  -> Instr("Call", "Unlock", lockRefOf("v", 0), 0, 1, pos)
      [] code = "Lt"  -> Instr("Call", "Lock", lockRefOf("t", 0), 0, 1, pos)
      [] code = "Ut"  -> Instr("Call", "Unlock", lockRefOf("t", 0), 0, 1, pos)
      [] code = "Da"  -> Instr("Defer", "Unlock", xa, 0, 1, pos)
      [] code = "DLa" -> Instr("Defer", "Lock", xa, 0, 1, pos)
      [] code = "W"   -> Instr("Store", "", xf, 0, 0, pos)
      [] code = "R"   -> Instr("UnOp", "", xf, 0, 0, pos)
      [] code = "Wu"  -> Instr("Store", "", lockRefOf("u", 2), 0, 0, pos)
      [] code = "Px"  -> Instr("Publish", "", lockRefOf("x", 0), 0, 0, pos)
      [] code = "Py"  -> Instr("Publish", "", lockRefOf("y", 0), 0, 0, pos)
      [] code = "C1"  -> Instr("Call", "", xa, 1, 1, pos)
      [] code = "C2"  -> Instr("Call", "", xa, 2, 1, pos)
      [] code = "C3"  -> Instr("Call", "", xa, 3, 1, pos)
      [] code = "Cn"  -> Instr("Call", "", xa, f + 1, 1, pos)
      [] code = "Ci"  -> Instr("Call", "", xa, ImportedFn, 1, pos)
      [] code = "G2"  -> Instr("Go", "", NoRef, 2, 1, pos)
      [] code = "N"   -> Instr("Other", "", NoRef, 0, 0, pos)
      [] code = "Ret" -> Instr("Return", "", NoRef, 0, 0, pos)
      [] code = "End" -> Instr("Return", "", NoRef, 0, 0, NoPos)

Place(f, blk, codes) == [k \in DOMAIN codes |-> Decode(codes[k], f, PosAt(f, blk, k))]

EndsInRet(codes) == codes # <<>> /\ codes[Len(codes)] = "Ret"

\* A function from a shape and the codes of its blocks.  A block without
\* successors ends in the return the compiler adds where control falls off
\* the end of the body.
MkFuncDom(f, shape, codes, dom) ==
    LET blocks == [blk \in DOMAIN shape |->
                     [instrs |-> Place(f, blk,
                                       IF shape[blk] = <<>> /\ ~EndsInRet(codes[blk])
                                       THEN codes[blk] \o <<"End">>
                                       ELSE codes[blk]),
                      succs |-> shape[blk]]]
    IN [blocks |-> blocks, dom |-> dom, pos |-> f * 1000,
        isInit |-> FALSE, returns |-> {}, newNamed |-> {},
        serveHTTP |-> FALSE, muConcurrent |-> FALSE, muIgnore |-> FALSE,
        nolint |-> {}, parent |-> 0, ignoreLines |-> {}]

\* The blocks of a shape, without instructions: what dominance depends on.
ShapeBlocks(shape) == [blk \in DOMAIN shape |-> [instrs |-> <<>>, succs |-> shape[blk]]]

MkFunc(f, shape, codes) ==
    MkFuncDom(f, shape, codes, DominatorPairs(ShapeBlocks(shape)))

Shapes ==
    << << <<2, 3>>, <<3>>, <<>> >>,                          \* if-then
       << <<2, 3>>, <<4>>, <<4>>, <<>> >>,                   \* if-else
       << <<2>>, <<3, 4>>, <<2>>, <<>> >>,                   \* loop
       << <<2, 3>>, <<3>>, <<4, 5>>, <<5>>, <<>> >>,         \* if-then, if-then
       << <<2, 3>>, <<3>>, <<4, 5>>, <<3>>, <<>> >> >>       \* if-then, loop

Menu ==
    << <<>>, <<"La">>, <<"N">>, <<"Ra">>, <<"Lb">>,
       <<"La", "Ub">>, <<"Da">>, <<"Lb", "Ua">>, <<"Ua">> >>

MenuSize == 7

MenuInUse == {Menu[i] : i \in 1..(IF MenuSize < Len(Menu) THEN MenuSize ELSE Len(Menu))}

\* The positions of the blocks that have several predecessors.
MergePositions(f) ==
    {blockPos(f.blocks[blk]) : blk \in {k \in DOMAIN f.blocks : NumPreds(f, k) > 1}}
        \ {NoPos}

\* The function as written, under //mu:ignore, with //mu:nolint on the
\* line before each merge block, or with //mu:nolint and a blank line before
\* each merge block.  nolint holds the lines of the //mu:nolint comments.
Annotated(f, annot) ==
    CASE annot = "none"      -> f
      [] annot = "ignore"    -> [f EXCEPT !.muIgnore = TRUE]
      [] annot = "nolint"    ->
             [f EXCEPT !.nolint = {LineOf(pos) - 1 : pos \in MergePositions(f)}]
      [] annot = "nolintGap" ->
             [f EXCEPT !.nolint = {LineOf(pos) - 2 : pos \in MergePositions(f)}]

\* Incoming edges of a block of a shape.
ShapePreds(shape, blk) ==
    Cardinality({<<k, i>> \in (DOMAIN shape) \X (1..2) :
                    i \in DOMAIN shape[k] /\ shape[k][i] = blk})

\* What a block may contain: a position-only instruction matters only where
\* a report can be positioned, in a block with several predecessors.
BlockMenu(shape, blk) ==
    IF ShapePreds(shape, blk) > 1 THEN MenuInUse ELSE MenuInUse \ {<<"N">>}

ShapeDom == [s \in DOMAIN Shapes |-> DominatorPairs(ShapeBlocks(Shapes[s]))]

ShapeFuncs(s) ==
    {MkFuncDom(1, Shapes[s], [blk \in DOMAIN Shapes[s] |->
                                 IF blk = 1 THEN <<>> ELSE codes[blk]], ShapeDom[s]) :
        codes \in {c \in [2..Len(Shapes[s]) -> MenuInUse] :
                      \A blk \in 2..Len(Shapes[s]) : c[blk] \in BlockMenu(Shapes[s], blk)}}

\* --- A conditional followed by a loop, every block but the last with
\* lock operations: the loop header is reached over two forward edges and
\* over the back-edge ---
LoopMenu ==
    << <<>>, <<"La">>, <<"Lb">>, <<"Ua", "Ub">>, <<"Ub", "Ua", "Ra">>, <<"Ra">> >>

LoopMenuSize == 5

LoopMenuInUse ==
    {LoopMenu[i] : i \in 1..(IF LoopMenuSize < Len(LoopMenu)
                             THEN LoopMenuSize ELSE Len(LoopMenu))}

LoopFuncs ==
    {MkFuncDom(1, Shapes[5], [blk \in DOMAIN Shapes[5] |->
                                 IF blk = 5 THEN <<>> ELSE codes[blk]], ShapeDom[5]) :
        codes \in [1..4 -> LoopMenuInUse]}

\* --- A two-armed conditional with an access to x.f after it, written
\* twice: as `if c { A } else { B }; x.f = 1` and as
\* `if !c { B } else { A }; x.f = 1`, the same blocks with the successors of
\* the branch in the other order ---
MirrorMenu == << <<>>, <<"La">>, <<"Lb">>, <<"La", "Lb">>, <<"Ra">> >>

MirrorMenuSize == 4

MirrorMenuInUse ==
    {MirrorMenu[i] : i \in 1..(IF MirrorMenuSize < Len(MirrorMenu)
                               THEN MirrorMenuSize ELSE Len(MirrorMenu))}

MirrorShape(swapped) ==
    << IF swapped THEN <<3, 2>> ELSE <<2, 3>>, <<4>>, <<4>>, <<>> >>

MirrorCodes ==
    {<<entry, arm1, arm2, access>> :
        entry \in MirrorMenuInUse, arm1 \in MirrorMenuInUse, arm2 \in MirrorMenuInUse,
        access \in {<<"W">>, <<"R">>}}

\* Only the smallest shape is also taken with annotations.
AnnotationsOf(s) ==
    IF s = 1 THEN {"none", "ignore", "nolint", "nolintGap"} ELSE {"none"}

\* Function bodies of two blocks in a row: codes, then the end of the body.
Straight(f, codes) == MkFunc(f, << <<2>>, <<>> >>, << codes, <<>> >>)

\* --- Functions with one or two returns, explicit or implicit ---
LeakShapes ==
    << << <<2, 3>>, <<>>, <<>> >>,          \* if c { ...; return }; ...
       << <<2, 3>>, <<3>>, <<>> >> >>       \* if c { ... }; ...

LeakBodies == << <<>>, <<"La">>, <<"La", "Da">>, <<"Ua">>, <<"Lb">> >>

LeakBodySize == 4

LeakBodiesInUse ==
    {LeakBodies[i] : i \in 1..(IF LeakBodySize < Len(LeakBodies)
                               THEN LeakBodySize ELSE Len(LeakBodies))}

\* The bodies of the blocks of a shape: a block without successors ends in an
\* explicit return or in the implicit one, of which a function has at most one.
LeakCodes(shape) ==
    {c \in [DOMAIN shape -> LeakBodiesInUse \cup {body \o <<"Ret">> : body \in LeakBodiesInUse}] :
        /\ \A blk \in DOMAIN shape : shape[blk] # <<>> => ~EndsInRet(c[blk])
        /\ Cardinality({blk \in DOMAIN shape :
                           shape[blk] = <<>> /\ ~EndsInRet(c[blk])}) <= 1}

LeakFuncs(f) ==
    UNION {{MkFunc(f, LeakShapes[s], c) : c \in LeakCodes(LeakShapes[s])} :
              s \in DOMAIN LeakShapes}

LeakCompanions(f) == {MkFunc(f, << <<>> >>, << <<>> >>), MkFunc(f, << <<>> >>, << <<"La">> >>)}

\* --- Functions that read or write field x.f under some of the mutexes ---
GuardPrefixes ==
    << <<"La", "Lb">>, <<"Lb">>, <<"Rb">>, <<"La">>, <<>>, <<"La", "Rb">> >>

GuardMenuSize == 5

GuardPrefixesInUse ==
    {GuardPrefixes[i] : i \in 1..(IF GuardMenuSize < Len(GuardPrefixes)
                                  THEN GuardMenuSize ELSE Len(GuardPrefixes))}

GuardFuncs(f) ==
    {MkFunc(f, << <<2>>, <<>> >>, << prefix, <<access>> >>) :
        prefix \in GuardPrefixesInUse, access \in {"W", "R"}}

\* The function also returns an S: it is constructor-like for S.
Returning(f) == [f EXCEPT !.returns = {"S"}]

\* --- main (1), a worker (2), a helper (3) and a setter (4) ---
MainBodies ==
    << <<"G2">>, <<"G2", "C2">>, <<"C2">>, <<"La", "C2", "Ua">>,
       <<"G2", "La", "C2", "Ua">> >>

CallMenuSize == 4

MainBodiesInUse ==
    {MainBodies[i] : i \in 1..(IF CallMenuSize < Len(MainBodies)
                               THEN CallMenuSize ELSE Len(MainBodies))}

WorkerBodies == {<<"C3">>, <<"La", "C3", "Ua">>}

HelperBodies ==
    {<<"W">>, <<"W", "C2">>, <<"La", "W", "Ua">>, <<"Lb", "Ub", "W", "C2">>}

\* --- A caller (1) of a function (2) that calls the imported function, and
\* the facts the imported package exported for it.  Its references name
\* fields of T, and in one fact a field of a type of a package that the
\* analysed package does not import. ---
ImportCallerBodies == {<<"C2">>, <<"La", "C2", "Ua">>}

ImportBodies ==
    {<<"Ci">>, <<"La", "Ci", "Ua">>, <<"Lb", "Ub", "Ci">>, <<"W", "Ci">>,
     <<"Lu", "Wu", "Uu", "Ci">>}

\* The FieldGuardFact the imported package exported for its type S: fields
\* of S and the mutex fields that guard them.
UpstreamFieldGuardFacts ==
    {("up.S" :> (2 :> 0)), ("up.S" :> (2 :> 1 @@ 3 :> 0))}

UpstreamFuncLockFacts ==
    {FuncLockFact({}, {MutexRef("up", "T", 0)}, {MutexRef("up", "T", 0)}),
     FuncLockFact({}, {MutexRef("up", "T", 0)},
                  {MutexRef("up", "T", 0), MutexRef("up", "T", 1)}),
     FuncLockFact({MutexRef("up", "T", 1)}, {}, {MutexRef("up", "T", 0)}),
     FuncLockFact({}, {MutexRef("up", "T", 0), MutexRef("far", "U", 0)},
                  {MutexRef("up", "T", 0), MutexRef("far", "U", 0)})}

\* The passes the analysed package can run in: without fact types, with no
\* fact for the imported function, or with one of the facts.
Upstreams ==
    {NoUpstream, [NoUpstream EXCEPT !.factTypes = TRUE]}
    \cup {[NoUpstream EXCEPT !.factTypes = TRUE,
                             !.funcLockFacts = (ImportedFn :> fact),
                             !.concurrentFacts = conc] :
             fact \in UpstreamFuncLockFacts, conc \in {{}, {ImportedFn}}}
    \cup {[NoUpstream EXCEPT !.factTypes = TRUE, !.fieldGuardFacts = guards] :
             guards \in UpstreamFieldGuardFacts}

\* --- Three functions that take locks in some order: x.a then x.b, x.b then
\* x.a, x.a then y.a, u.a then v.a (u and v of the imported type named S),
\* x.a or x.b around a call of the third function, x.a twice, or none; each
\* may be annotated as a concurrent entry point. ---
OrderBodies ==
    << <<"La", "Lb", "Ub", "Ua">>, <<"Lb", "La", "Ua", "Ub">>,
       <<"La", "Ly", "Uy", "Ua">>, <<"Lu", "Lv", "Uv", "Uu">>, <<"La", "C3", "Ua">>,
       <<"La", "La", "Ua">>, <<"N">>, <<"Lb", "C3", "Ub">> >>

OrderMenuSize == 7

OrderBodiesInUse ==
    {OrderBodies[i] : i \in 1..(IF OrderMenuSize < Len(OrderBodies)
                                THEN OrderMenuSize ELSE Len(OrderBodies))}

Concurrent(f, concurrent) == [f EXCEPT !.muConcurrent = concurrent]

OrderFuncs(f) ==
    {Concurrent(Straight(f, body), concurrent) :
        body \in OrderBodiesInUse, concurrent \in BOOLEAN}

\* --- Functions that take two or three of the locks x.a, x.b and t.a (of
\* the imported type T) nested, so that the lock-order graph has up to three
\* keys and cycles that share edges ---
CycleBodies ==
    << <<"La", "Lb", "Ub", "Lt", "Ut", "Ua">>, <<"Lb", "La", "Ua", "Ub">>,
       <<"Lt", "Lb", "Ub", "Ut">>, <<"Lb", "Lt", "Ut", "Ub">>,
       <<"Lt", "La", "Ua", "Ut">>, <<"La", "Lb", "Ub", "Ua">> >>

CycleMenuSize == 5

CycleBodiesInUse ==
    {CycleBodies[i] : i \in 1..(IF CycleMenuSize < Len(CycleBodies)
                                THEN CycleMenuSize ELSE Len(CycleBodies))}

\* --- Single-block functions with a deferred Lock or Unlock of x.a ---
DeferPrefixes == {<<>>, <<"La">>, <<"Ra">>}

DeferTails == {<<>>, <<"Ret">>, <<"R", "Ret">>, <<"Ua", "Ret">>}

DeferFuncs(f) ==
    {MkFunc(f, << <<>> >>, << prefix \o <<deferred>> \o tail >>) :
        prefix \in DeferPrefixes, deferred \in {"DLa", "Da"}, tail \in DeferTails}

(***************************************************************************)
(* Phase 1.5: facts of the imported packages.                              *)
(***************************************************************************)
\* mutexRefToKey: the key of a MutexRef whose package is the analysed one or a
\* direct import, whose type that package declares and whose field exists.
mutexRefResolves(ref) ==
    /\ ref.PkgPath = "p" \/ ref.PkgPath \in DirectImports
    /\ ref.TypeName \in ScopeOf(ref.PkgPath)
    /\ ref.FieldIndex < NumFields

mutexRefsToKeys(refs) ==
    {[StructType |-> ref.TypeName, FieldIndex |-> ref.FieldIndex] :
        ref \in {r \in refs : mutexRefResolves(r)}}

\* The callees of other packages at the recorded call sites.
ImportedCallees(c) ==
    {c.callSites[i].Callee : i \in {j \in DOMAIN c.callSites :
                                      c.callSites[j].Callee \notin DOMAIN srcFuncs}}

\* importFieldGuardFacts: the guards of the observed fields of imported types
\* that have a fact.
\* The same with the field's own index stored as its guard.
importFieldGuardFactsOwnIndex(c) ==
    LET types == {key.StructType : key \in DOMAIN c.observations}
                    \cap ImportedTypes \cap DOMAIN c.pass.fieldGuardFacts
        keys  == UNION {{[StructType |-> t, FieldIndex |-> i] :
                           i \in DOMAIN c.pass.fieldGuardFacts[t]} : t \in types}
    IN [c EXCEPT !.guards =
          [fk \in (DOMAIN c.guards) \cup keys |->
              IF fk \in keys
              THEN [MutexFieldIndex |-> fk.FieldIndex, NeedsExclusive |-> FALSE]
              ELSE c.guards[fk]]]

importFieldGuardFacts(c) ==
    LET types == {key.StructType : key \in DOMAIN c.observations}
                    \cap ImportedTypes \cap DOMAIN c.pass.fieldGuardFacts
        keys  == UNION {{[StructType |-> t, FieldIndex |-> i] :
                           i \in DOMAIN c.pass.fieldGuardFacts[t]} : t \in types}
    IN [c EXCEPT !.guards =
          [fk \in (DOMAIN c.guards) \cup keys |->
              IF fk \in keys
              THEN [MutexFieldIndex |-> c.pass.fieldGuardFacts[fk.StructType][fk.FieldIndex],
                    NeedsExclusive  |-> FALSE]
              ELSE c.guards[fk]]]

\* importFuncLockFacts: the record of an imported callee with a fact gets the
\* keys of the fact's references that resolve.
importFuncLockFacts(c) ==
    LET callees == {fn \in ImportedCallees(c) : fn \in DOMAIN c.pass.funcLockFacts}
    IN [c EXCEPT !.funcFacts =
          [fn \in (DOMAIN c.funcFacts) \cup callees |->
              IF fn \in callees
              THEN LET fact  == c.pass.funcLockFacts[fn]
                       facts == getOrCreateFuncFacts(c.funcFacts, fn)[fn]
                   IN [facts EXCEPT
                         !.Requires = @ \cup mutexRefsToKeys(fact.Requires),
                         !.Acquires = @ \cup mutexRefsToKeys(fact.Acquires),
                         !.AcquiresTransitive =
                             @ \cup mutexRefsToKeys(fact.AcquiresTransitive)]
              ELSE c.funcFacts[fn]]]

\* importConcurrentFacts: an imported callee with a ConcurrentFact counts as
\* annotated concurrent.
importConcurrentFacts(c) ==
    [c EXCEPT !.annotations.concurrent =
        @ \cup (ImportedCallees(c) \cap c.pass.concurrentFacts)]

importFacts ==
    /\ pc = "importFacts"
    /\ ctx' = IF ~ctx.pass.factTypes THEN ctx
              ELSE importConcurrentFacts(importFuncLockFacts(importFieldGuardFacts(ctx)))
    /\ pc' = "inferGuards"
    /\ UNCHANGED <<resolver, srcFuncs, fnIdx, stack, wctx, diags, log>>

(***************************************************************************)
(* Phase 2: guard inference.                                               *)
(***************************************************************************)
\* isConstructorLike: an init function, a function returning the struct type,
\* or a New/Make/Create function whose name contains the struct's name.
isConstructorLike(fn, structType) ==
    \/ srcFuncs[fn].isInit
    \/ structType \in srcFuncs[fn].returns
    \/ structType \in srcFuncs[fn].newNamed

\* The instructions of a function.
AllInstrs(fn) ==
    UNION {Range(srcFuncs[fn].blocks[blk].instrs) : blk \in DOMAIN srcFuncs[fn].blocks}

\* The receiver was stored into a map, or into a target that is not a local
\* allocation, by an instruction of the caller positioned before pos.
publishedBefore(caller, receiver, pos) ==
    \E instr \in AllInstrs(caller) :
        instr.op = "Publish" /\ instr.ref.base = receiver /\ instr.pos < pos

\* isPrePublicationConstructorCall: the callee is a method, the caller is
\* constructor-like for the type of the receiver, and the receiver is not
\* published before the call.
isPrePublicationConstructorCall(cs) ==
    /\ cs.ReceiverValue # NoRef.base
    /\ cs.Caller \in DOMAIN srcFuncs
    /\ isConstructorLike(cs.Caller, BaseType(cs.ReceiverValue))
    /\ ~publishedBefore(cs.Caller, cs.ReceiverValue, cs.Pos)

isImmutableField(filteredObs) ==
    \A i \in DOMAIN filteredObs : filteredObs[i].IsRead

\* The counts map of pickMostFrequentMutex: how many of the considered
\* observations hold each mutex field (the field's own index is skipped).
MutexCounts(key, observations, writesOnly) ==
    LET considered == {i \in DOMAIN observations :
                          ~(writesOnly /\ observations[i].IsRead)}
        heldAt(i)  == {hmf.FieldIndex : hmf \in observations[i].SameBaseMutexFields}
                         \ {key.FieldIndex}
        idxs       == UNION {heldAt(i) : i \in considered}
    IN [idx \in idxs |-> Cardinality({i \in considered : idx \in heldAt(i)})]

\* The selection loop with ties going to the highest field index.
RECURSIVE PickBestHighestIndex(_, _, _, _)
PickBestHighestIndex(counts, todo, best, bestCount) ==
    IF todo = <<>> THEN best
    ELSE LET fieldIdx == Head(todo)
             count    == counts[fieldIdx]
         IN IF count > bestCount
               \/ (count = bestCount /\ (best = -1 \/ fieldIdx > best))
            THEN PickBestHighestIndex(counts, Tail(todo), fieldIdx, count)
            ELSE PickBestHighestIndex(counts, Tail(todo), best, bestCount)

\* The selection loop with ties going to the entry visited first.
RECURSIVE PickBestFirstVisited(_, _, _, _)
PickBestFirstVisited(counts, todo, best, bestCount) ==
    IF todo = <<>> THEN best
    ELSE IF counts[Head(todo)] > bestCount
    THEN PickBestFirstVisited(counts, Tail(todo), Head(todo), counts[Head(todo)])
    ELSE PickBestFirstVisited(counts, Tail(todo), best, bestCount)

\* The selection loop of pickMostFrequentMutex over the counts map.
RECURSIVE PickBest(_, _, _, _)
PickBest(counts, todo, best, bestCount) ==
    IF todo = <<>> THEN best
    ELSE LET fieldIdx == Head(todo)
             count    == counts[fieldIdx]
         IN IF count > bestCount
               \/ (count = bestCount /\ (best = -1 \/ fieldIdx < best))
            THEN PickBest(counts, Tail(todo), fieldIdx, count)
            ELSE PickBest(counts, Tail(todo), best, bestCount)

pickMostFrequentMutex(key, observations, writesOnly) ==
    LET counts == MutexCounts(key, observations, writesOnly)
    IN PickBest(counts, SetToSeq(DOMAIN counts), -1, 0)

\* inferFieldGuard: [ok, guard]; writes decide, all observations are the fallback.
inferFieldGuard(key, observations) ==
    LET fromWrites == pickMostFrequentMutex(key, observations, TRUE)
        best == IF fromWrites = -1
                THEN pickMostFrequentMutex(key, observations, FALSE)
                ELSE fromWrites
        needsExclusive ==
            \E i \in DOMAIN observations :
                /\ ~observations[i].IsRead
                /\ \E hmf \in observations[i].SameBaseMutexFields :
                      hmf.FieldIndex = best
    IN [ok |-> best # -1,
        guard |-> [MutexFieldIndex |-> best, NeedsExclusive |-> needsExclusive]]

FilteredObservations(key) ==
    SelectSeq(ctx.observations[key],
              LAMBDA obs : ~isConstructorLike(obs.Func, key.StructType))

\* The fields that get a guard: those of the types of the analysed package.
GuardedKeys ==
    {key \in DOMAIN ctx.observations :
        /\ key.StructType \in StructTypes
        /\ FilteredObservations(key) # <<>>
        /\ ~isImmutableField(FilteredObservations(key))
        /\ inferFieldGuard(key, FilteredObservations(key)).ok}

inferGuards ==
    /\ pc = "inferGuards"
    /\ ctx' = [ctx EXCEPT !.guards =
                 [key \in (DOMAIN @) \cup GuardedKeys |->
                     IF key \in GuardedKeys
                     THEN inferFieldGuard(key, FilteredObservations(key)).guard
                     ELSE @[key]]]
    /\ pc' = "deriveInitialRequirements"
    /\ UNCHANGED <<resolver, srcFuncs, fnIdx, stack, wctx, diags, log>>

(***************************************************************************)
(* Phases 2.5 and 3: requirements and their propagation.                   *)
(***************************************************************************)
GuardHeldAt(obs, guard) ==
    \E hmf \in obs.SameBaseMutexFields : hmf.FieldIndex = guard.MutexFieldIndex

GuardKey(key, guard) ==
    [StructType |-> key.StructType, FieldIndex |-> guard.MutexFieldIndex]

\* ctx.observations[key]: nil for a key without observations.
ObservationsOf(c, key) ==
    IF key \in DOMAIN c.observations THEN c.observations[key] ELSE <<>>

\* The (function, mutex) pairs deriveInitialRequirements adds to Requires.
InitialRequirements ==
    {<<obs.Func, GuardKey(key, ctx.guards[key])>> :
        <<key, obs>> \in
            {ko \in UNION {{<<k, o>> : o \in Range(ObservationsOf(ctx, k))} :
                              k \in DOMAIN ctx.guards} :
                /\ ~isConstructorLike(ko[2].Func, ko[1].StructType)
                /\ ~GuardHeldAt(ko[2], ctx.guards[ko[1]])}}

RECURSIVE AddFacts(_, _, _)
AddFacts(funcFacts, set, pairs) ==
    IF pairs = <<>> THEN funcFacts
    ELSE LET fn == Head(pairs)[1]
             ff == getOrCreateFuncFacts(funcFacts, fn)
         IN AddFacts([ff EXCEPT ![fn][set] = @ \cup {Head(pairs)[2]}],
                     set, Tail(pairs))

deriveInitialRequirements ==
    /\ pc = "deriveInitialRequirements"
    /\ ctx' = [ctx EXCEPT !.funcFacts =
                 AddFacts(@, "Requires", SetToSeq(InitialRequirements))]
    /\ pc' = "propagateRequirements"
    /\ UNCHANGED <<resolver, srcFuncs, fnIdx, stack, wctx, diags, log>>

\* callerHoldsMutex: the caller holds mfk at the call site, in any mode.
callerHoldsMutex(cs, mfk) ==
    /\ mfk.StructType \in DOMAIN cs.HeldByStructType
    /\ \E hr \in cs.HeldByStructType[mfk.StructType] :
          hr.FieldIndex = mfk.FieldIndex

maxIterations == 1000

\* calleeToSites: the reverse call graph, callee -> indexes of its call sites.
calleeToSites(callSites) ==
    [f \in {callSites[i].Callee : i \in DOMAIN callSites} |->
        {i \in DOMAIN callSites : callSites[i].Callee = f}]

\* Go leaves the order of a range over a map open, and an entry created during
\* the range is produced or skipped.  The requirement loop ranges over the fact
\* table either by ascending or by descending function; an entry created
\* during the range is produced when its turn is still to come.

\* The functions a fact table can hold: the imported one, then the package's.
NumFuncs == Len(srcFuncs) + 1

FuncAt(k) == IF k = 1 THEN ImportedFn ELSE k - 1

KeyAt(order, k) == FuncAt(IF order = "ascending" THEN k ELSE NumFuncs + 1 - k)

\* The body of the range for one callee: every requirement of the callee that
\* a call site does not satisfy becomes a requirement of the caller.
RequireStep(funcFacts, callSites, c2s, callee) ==
    IF callee \notin DOMAIN funcFacts \/ callee \notin DOMAIN c2s THEN funcFacts
    ELSE AddFacts(funcFacts, "Requires",
             SetToSeq({<<callSites[im[1]].Caller, im[2]>> :
                 im \in {p \in c2s[callee] \X funcFacts[callee].Requires :
                    /\ ~callerHoldsMutex(callSites[p[1]], p[2])
                    /\ ~isPrePublicationConstructorCall(callSites[p[1]])
                    /\ \/ callSites[p[1]].Caller \notin DOMAIN funcFacts
                       \/ p[2] \notin funcFacts[callSites[p[1]].Caller].Requires}}))

\* The range over the keys lo..hi of the order, on the table in place.
RECURSIVE RequireSweepRange(_, _, _, _, _, _)
RequireSweepRange(funcFacts, callSites, c2s, order, lo, hi) ==
    IF lo > hi THEN funcFacts
    ELSE IF lo = hi THEN RequireStep(funcFacts, callSites, c2s, KeyAt(order, lo))
    ELSE The({RequireSweepRange(left, callSites, c2s, order, ((lo + hi) \div 2) + 1, hi) :
                left \in {RequireSweepRange(funcFacts, callSites, c2s, order,
                                            lo, (lo + hi) \div 2)}})

\* One sweep of the requirement loop.
RequireSweep(funcFacts, callSites, c2s, order) ==
    RequireSweepRange(funcFacts, callSites, c2s, order, 1, NumFuncs)

\* A loop that never notices that a sweep changed nothing.
RECURSIVE RequireLoopAlwaysChanged(_, _, _, _, _)
RequireLoopAlwaysChanged(funcFacts, callSites, c2s, order, n) ==
    IF n = 1
    THEN The({[facts |-> next, changed |-> TRUE, sweeps |-> 1] :
                next \in {RequireSweep(funcFacts, callSites, c2s, order)}})
    ELSE The({The({[rest EXCEPT !.sweeps = @ + half.sweeps] :
                     rest \in {RequireLoopAlwaysChanged(half.facts, callSites, c2s, order,
                                                        n - (n \div 2))}}) :
                half \in {RequireLoopAlwaysChanged(funcFacts, callSites, c2s, order,
                                                   n \div 2)}})

\* Up to n sweeps, ending after the first one that changes nothing; sweeps
\* counts the sweeps made.
RECURSIVE RequireLoop(_, _, _, _, _)
RequireLoop(funcFacts, callSites, c2s, order, n) ==
    IF n = 1
    THEN The({[facts |-> next, changed |-> next # funcFacts, sweeps |-> 1] :
                next \in {RequireSweep(funcFacts, callSites, c2s, order)}})
    ELSE The({IF ~half.changed THEN half
              ELSE The({[rest EXCEPT !.sweeps = @ + half.sweeps] :
                          rest \in {RequireLoop(half.facts, callSites, c2s, order,
                                                n - (n \div 2))}}) :
                half \in {RequireLoop(funcFacts, callSites, c2s, order, n \div 2)}})

RequireFixpoint(funcFacts, callSites, order) ==
    The({RequireLoop(funcFacts, callSites, c2s, order, maxIterations) :
           c2s \in {calleeToSites(callSites)}})

\* A seeding that leaves AcquiresTransitive as it is.
SeedNothing(funcFacts) == funcFacts

\* AcquiresTransitive starts as Acquires ...
SeedAcquiresTransitive(funcFacts) ==
    [f \in DOMAIN funcFacts |->
        [funcFacts[f] EXCEPT !.AcquiresTransitive = @ \cup funcFacts[f].Acquires]]

\* ... and the body of the acquisition loop for one call site adds the
\* callee's transitive acquisitions to the caller, whose record it creates.
AcquireStep(st, cs) ==
    IF cs.Callee \notin DOMAIN st.facts THEN st
    ELSE IF /\ cs.Caller \in DOMAIN st.facts
            /\ st.facts[cs.Callee].AcquiresTransitive
                  \subseteq st.facts[cs.Caller].AcquiresTransitive
    THEN st
    ELSE The({[facts   |-> [created EXCEPT ![cs.Caller].AcquiresTransitive =
                              @ \cup created[cs.Callee].AcquiresTransitive],
               changed |-> \/ st.changed
                           \/ ~(created[cs.Callee].AcquiresTransitive
                                  \subseteq created[cs.Caller].AcquiresTransitive)] :
                created \in {getOrCreateFuncFacts(st.facts, cs.Caller)}})

\* The call sites lo..hi in order, on the table in place.
RECURSIVE AcquireSweepRange(_, _, _, _)
AcquireSweepRange(st, callSites, lo, hi) ==
    IF lo > hi THEN st
    ELSE IF lo = hi THEN AcquireStep(st, callSites[lo])
    ELSE The({AcquireSweepRange(left, callSites, ((lo + hi) \div 2) + 1, hi) :
                left \in {AcquireSweepRange(st, callSites, lo, (lo + hi) \div 2)}})

\* One sweep of the acquisition loop.
AcquireSweep(funcFacts, callSites) ==
    AcquireSweepRange([facts |-> funcFacts, changed |-> FALSE],
                      callSites, 1, Len(callSites))

RECURSIVE AcquireLoop(_, _, _)
AcquireLoop(funcFacts, callSites, n) ==
    IF n = 1
    THEN The({[facts |-> next.facts, changed |-> next.changed, sweeps |-> 1] :
                next \in {AcquireSweep(funcFacts, callSites)}})
    ELSE The({IF ~half.changed THEN half
              ELSE The({[rest EXCEPT !.sweeps = @ + half.sweeps] :
                          rest \in {AcquireLoop(half.facts, callSites, n - (n \div 2))}}) :
                half \in {AcquireLoop(funcFacts, callSites, n \div 2)}})

AcquireFixpoint(funcFacts, callSites) ==
    AcquireLoop(funcFacts, callSites, maxIterations)

\* The fact table propagateRequirements leaves.
Propagate(funcFacts, callSites, order) ==
    The({AcquireFixpoint(SeedAcquiresTransitive(required.facts), callSites).facts :
           required \in {RequireFixpoint(funcFacts, callSites, order)}})

propagateRequirements ==
    /\ pc = "propagateRequirements"
    /\ \E order \in MapOrders :
          ctx' = [ctx EXCEPT !.funcFacts = Propagate(@, ctx.callSites, order)]
    /\ pc' = "computeConcurrentContext"
    /\ UNCHANGED <<resolver, srcFuncs, fnIdx, stack, wctx, diags, log>>

(***************************************************************************)
(* Phase 3.5: concurrent entry points and reachability.                    *)
(***************************************************************************)
detectConcurrentEntrypoints ==
    {fn \in DOMAIN srcFuncs : srcFuncs[fn].serveHTTP}
    \cup {i.callee : i \in {j \in UNION {AllInstrs(fn) : fn \in DOMAIN srcFuncs} :
                               j.op = "Go" /\ j.callee # 0}}
    \cup ctx.annotations.concurrent

\* Only the entry points themselves.
EntrypointsOnly(reachable, callSites) == reachable

RECURSIVE ReachableFrom(_, _)
ReachableFrom(reachable, callSites) ==
    LET more == {callSites[i].Callee : i \in {j \in DOMAIN callSites :
                                                 callSites[j].Caller \in reachable}}
    IN IF more \subseteq reachable THEN reachable
       ELSE ReachableFrom(reachable \cup more, callSites)

\* The fallback taken also with a single entry point.
concurrentFuncsOfSeveral(entrypoints, callSites) ==
    IF Cardinality(entrypoints) <= 1 THEN [isNil |-> TRUE, funcs |-> {}]
    ELSE [isNil |-> FALSE, funcs |-> ReachableFrom(entrypoints, callSites)]

\* ctx.concurrentFuncs as computeConcurrentContext leaves it: nil when no
\* entry point was detected, else what the entry points reach.
concurrentFuncsOf(entrypoints, callSites) ==
    IF entrypoints = {} THEN [isNil |-> TRUE, funcs |-> {}]
    ELSE [isNil |-> FALSE, funcs |-> ReachableFrom(entrypoints, callSites)]

computeConcurrentContext ==
    /\ pc = "computeConcurrentContext"
    /\ ctx' = [ctx EXCEPT !.concurrentFuncs =
                 concurrentFuncsOf(detectConcurrentEntrypoints, ctx.callSites)]
    /\ pc' = "collectInterproceduralLockOrderEdges"
    /\ UNCHANGED <<resolver, srcFuncs, fnIdx, stack, wctx, diags, log>>

isConcurrent(c, fn) == c.concurrentFuncs.isNil \/ fn \in c.concurrentFuncs.funcs

(***************************************************************************)
(* Phase 3.8: acquire helpers.                                             *)
(***************************************************************************)
AllLeakCandidates(c) == UNION Range(c.lockLeakCandidates)

\* returnPositions[(fn, mfk)]: the return positions that are leak candidates.
returnPositions(c, fn, mfk) ==
    {cand.Pos : cand \in {k \in AllLeakCandidates(c) :
                             k.Fn = fn /\ lockRefToMutexFieldKey(k.Ref) = mfk}}

\* returnCount[fn]: the *ssa.Return instructions in all blocks of fn.
returnCount(fn) ==
    Cardinality({bi \in UNION {{<<blk, i>> : i \in DOMAIN srcFuncs[fn].blocks[blk].instrs} :
                                  blk \in DOMAIN srcFuncs[fn].blocks} :
                    srcFuncs[fn].blocks[bi[1]].instrs[bi[2]].op = "Return"})

\* The pairs with some return, not every return, a leak candidate.
ReturnsHoldingPairsAnyReturn(c) ==
    {<<k.Fn, lockRefToMutexFieldKey(k.Ref)>> : k \in AllLeakCandidates(c)}

\* The (function, mutex) pairs for which every return is a leak candidate.
ReturnsHoldingPairs(c) ==
    {fm \in {<<k.Fn, lockRefToMutexFieldKey(k.Ref)>> : k \in AllLeakCandidates(c)} :
        /\ Cardinality(returnPositions(c, fm[1], fm[2])) = returnCount(fm[1])
        /\ returnCount(fm[1]) > 0}

computeReturnsHolding ==
    /\ pc = "computeReturnsHolding"
    /\ ctx' = [ctx EXCEPT !.funcFacts =
                 AddFacts(@, "ReturnsHolding", SetToSeq(ReturnsHoldingPairs(ctx)))]
    /\ pc' = "checkCallersOfAcquireHelpers"
    /\ UNCHANGED <<resolver, srcFuncs, fnIdx, stack, wctx, diags, log>>

\* A report of the later phases: dropped at a suppressed site.
Report(c, fn, pos, text, name, arg) ==
    IF isSuppressed(c, fn, pos) THEN <<>>
    ELSE <<Diag(pos, text, name, arg, fn, 0, 0)>>

RECURSIVE ConcatRange(_, _, _)
ConcatRange(seqs, lo, hi) ==
    IF lo > hi THEN <<>>
    ELSE IF lo = hi THEN seqs[lo]
    ELSE ConcatRange(seqs, lo, (lo + hi) \div 2)
            \o ConcatRange(seqs, ((lo + hi) \div 2) + 1, hi)

Concat(seqs) == The({ConcatRange(s, 1, Len(s)) : s \in {seqs}})

(***************************************************************************)
(* Phase 3.7: the lock-order graph and its cycles.                         *)
(***************************************************************************)
\* The edges a call site adds: from every lock the caller holds to every
\* other lock the callee acquires, itself or through its callees.
\* The same without the skip of an acquired key that equals the held key.
CallSiteEdgesSameKeyToo(c, cs) ==
    IF cs.Callee \notin DOMAIN c.funcFacts THEN {}
    ELSE {[From |-> [StructType |-> t, FieldIndex |-> hr.FieldIndex],
           To   |-> acquiredKey,
           Pos  |-> cs.Pos,
           Fn   |-> cs.Caller] :
             <<t, hr, acquiredKey>> \in
                UNION {{<<ty, h, a>> : h \in cs.HeldByStructType[ty],
                                     a \in c.funcFacts[cs.Callee].AcquiresTransitive} :
                         ty \in DOMAIN cs.HeldByStructType}}

CallSiteEdges(c, cs) ==
    IF cs.Callee \notin DOMAIN c.funcFacts THEN {}
    ELSE {[From |-> [StructType |-> t, FieldIndex |-> hr.FieldIndex],
           To   |-> acquiredKey,
           Pos  |-> cs.Pos,
           Fn   |-> cs.Caller] :
             <<t, hr, acquiredKey>> \in
                {tha \in UNION {{<<ty, h, a>> : h \in cs.HeldByStructType[ty],
                                              a \in c.funcFacts[cs.Callee].AcquiresTransitive} :
                                  ty \in DOMAIN cs.HeldByStructType} :
                    [StructType |-> tha[1], FieldIndex |-> tha[2].FieldIndex] # tha[3]}}

RECURSIVE collectEdges(_, _, _)
collectEdges(c, g, i) ==
    IF i > Len(c.callSites) THEN g
    ELSE collectEdges(c, addEdges(g, SetToSeq(CallSiteEdges(c, c.callSites[i]))), i + 1)

collectInterproceduralLockOrderEdges ==
    /\ pc = "collectInterproceduralLockOrderEdges"
    /\ ctx' = [ctx EXCEPT !.lockOrderGraph = collectEdges(ctx, @, 1)]
    /\ pc' = "detectAndReportLockOrderCycles"
    /\ UNCHANGED <<resolver, srcFuncs, fnIdx, stack, wctx, diags, log>>

\* The order of two names "StructName.fieldName": type name, then field.
NameLess(a, b) ==
    \/ a[1] = "S" /\ b[1] = "T"
    \/ a[1] = b[1] /\ a[2] < b[2]

KeyNameLess(a, b) == NameLess(mutexFieldKeyName(a), mutexFieldKeyName(b))

\* Keys of equal names keep the order the map iteration gave them.
KeyBefore(a, b, order) ==
    \/ KeyNameLess(a, b)
    \/ /\ mutexFieldKeyName(a) = mutexFieldKeyName(b)
       /\ IF order = "ascending" THEN a.StructType \in StructTypes
          ELSE a.StructType \notin StructTypes

\* sort.Slice by the name of To; the slices are short, and short slices are
\* sorted by insertion, which keeps edges to the same key in their order.
RECURSIVE InsertEdge(_, _)
InsertEdge(sorted, edge) ==
    IF sorted = <<>> THEN <<edge>>
    ELSE IF KeyNameLess(edge.To, sorted[Len(sorted)].To)
    THEN Append(InsertEdge(SubSeq(sorted, 1, Len(sorted) - 1), edge), sorted[Len(sorted)])
    ELSE Append(sorted, edge)

RECURSIVE SortEdges(_)
SortEdges(edges) ==
    IF edges = <<>> THEN <<>>
    ELSE InsertEdge(SortEdges(SubSeq(edges, 1, Len(edges) - 1)), edges[Len(edges)])

RECURSIVE SortKeys(_, _)
SortKeys(keys, order) ==
    IF keys = {} THEN <<>>
    ELSE LET m == CHOOSE a \in keys : \A b \in keys \ {a} : KeyBefore(a, b, order)
         IN <<m>> \o SortKeys(keys \ {m}, order)

EdgesOf(g, node) == IF node \in DOMAIN g THEN g[node] ELSE <<>>

GraphEdges(g) == UNION {Range(g[from]) : from \in DOMAIN g}

GraphNodes(g) == (DOMAIN g) \cup {e.To : e \in GraphEdges(g)}

\* extractCycle: the back edge and the parent edges from its source back to
\* its target, in acquisition order; <<>> is the nil cycle.
RECURSIVE extractLoop(_, _, _, _, _)
extractLoop(parent, backEdge, cycle, current, visited) ==
    IF current = backEdge.To THEN Reverse(cycle)
    ELSE IF current \in visited THEN <<>>
    ELSE IF current \notin DOMAIN parent THEN <<>>
    ELSE extractLoop(parent, backEdge, Append(cycle, parent[current]),
                     parent[current].From, visited \cup {current})

\* An extraction that leaves the edges in the order it collected them.
extractCycleUnreversed(parent, backEdge) ==
    Reverse(extractLoop(parent, backEdge, <<backEdge>>, backEdge.From, {}))

\* An extraction that finds no cycle in a self-edge.
extractCycleNoSelfEdge(parent, backEdge) ==
    IF backEdge.From = backEdge.To THEN <<>>
    ELSE extractLoop(parent, backEdge, <<backEdge>>, backEdge.From, {})

extractCycle(parent, backEdge) ==
    extractLoop(parent, backEdge, <<backEdge>>, backEdge.From, {})

ColorOf(st, node) == IF node \in DOMAIN st.color THEN st.color[node] ELSE "white"

\* dfs of detectCycles; st holds color, parent and the cycles found.
RECURSIVE dfs(_, _, _)
RECURSIVE dfsEdges(_, _, _, _)
dfsEdges(g, st, edges, i) ==
    IF i > Len(edges) THEN st
    ELSE LET edge == edges[i]
         IN dfsEdges(g,
                CASE ColorOf(st, edge.To) = "white" ->
                        dfs(g, [st EXCEPT !.parent = MapPut(@, edge.To, edge)], edge.To)
                  [] ColorOf(st, edge.To) = "gray" ->
                        IF extractCycle(st.parent, edge) = <<>> THEN st
                        ELSE [st EXCEPT !.cycles = Append(@, extractCycle(st.parent, edge))]
                  [] OTHER -> st,
                edges, i + 1)

dfs(g, st, node) ==
    [dfsEdges(g, [st EXCEPT !.color = MapPut(@, node, "gray")],
              SortEdges(EdgesOf(g, node)), 1)
        EXCEPT !.color = MapPut(@, node, "black")]

RECURSIVE dfsNodes(_, _, _, _)
dfsNodes(g, st, sortedNodes, i) ==
    IF i > Len(sortedNodes) THEN st
    ELSE dfsNodes(g, IF ColorOf(st, sortedNodes[i]) = "white"
                     THEN dfs(g, st, sortedNodes[i]) ELSE st,
                  sortedNodes, i + 1)

\* deduplicateCycles: the key of a cycle is the names of its (from, to) pairs
\* rotated to start at its least pair; the functions of the edges are not
\* part of it.
PairOf(edge) == <<mutexFieldKeyName(edge.From), mutexFieldKeyName(edge.To)>>

pairLess(a, b) ==
    \/ NameLess(a[1], b[1])
    \/ a[1] = b[1] /\ NameLess(a[2], b[2])

CycleKey(cycle) ==
    LET least  == {i \in DOMAIN cycle :
                     \A j \in DOMAIN cycle : ~pairLess(PairOf(cycle[j]), PairOf(cycle[i]))}
        minIdx == CHOOSE i \in least : \A j \in least : i <= j
    IN [i \in DOMAIN cycle |-> PairOf(cycle[((minIdx + i - 2) % Len(cycle)) + 1])]

RECURSIVE dedupLoop(_, _, _, _)
dedupLoop(cycles, i, seen, result) ==
    IF i > Len(cycles) THEN result
    ELSE IF CycleKey(cycles[i]) \in seen
    THEN dedupLoop(cycles, i + 1, seen, result)
    ELSE dedupLoop(cycles, i + 1, seen \cup {CycleKey(cycles[i])},
                   Append(result, cycles[i]))

deduplicateCycles(cycles) == dedupLoop(cycles, 1, {}, <<>>)

\* The cycles the traversal finds, before deduplication.
discoveredCycles(g, order) ==
    dfsNodes(g, [color |-> EmptyMap, parent |-> EmptyMap, cycles |-> <<>>],
             SortKeys(GraphNodes(g), order), 1).cycles

detectCycles(g, order) == deduplicateCycles(discoveredCycles(g, order))

RECURSIVE UniqueFromNames(_, _, _)
UniqueFromNames(cycle, i, names) ==
    IF i > Len(cycle) THEN names
    ELSE UniqueFromNames(cycle, i + 1,
             IF mutexFieldKeyName(cycle[i].From) \in Range(names) THEN names
             ELSE Append(names, mutexFieldKeyName(cycle[i].From)))

\* reportLockOrderCycle: at the first edge of the cycle, naming its first two
\* mutexes, or the one mutex of a self-edge.
reportLockOrderCycle(c, cycle) ==
    LET names == UniqueFromNames(cycle, 1, <<>>)
    IN IF Len(names) < 2
       THEN Report(c, cycle[1].Fn, cycle[1].Pos, "lock ordering cycle on",
                   names[1], 0)
       ELSE Report(c, cycle[1].Fn, cycle[1].Pos, "lock ordering cycle between",
                   names[1], names[2])

hasConcurrent(c, cycle) == \E i \in DOMAIN cycle : isConcurrent(c, cycle[i].Fn)

CycleReports(c, cycles) ==
    Concat([i \in DOMAIN cycles |->
              IF hasConcurrent(c, cycles[i]) THEN reportLockOrderCycle(c, cycles[i])
              ELSE <<>>])

\* detectCycles sorts the edge slices of the graph in place.
detectAndReportLockOrderCycles ==
    /\ pc = "detectAndReportLockOrderCycles"
    /\ \E order \in MapOrders :
          diags' = diags \o CycleReports(ctx, detectCycles(ctx.lockOrderGraph, order))
    /\ ctx' = [ctx EXCEPT !.lockOrderGraph =
                 [from \in DOMAIN @ |-> SortEdges(@[from])]]
    /\ pc' = "computeReturnsHolding"
    /\ UNCHANGED <<resolver, srcFuncs, fnIdx, stack, wctx, log>>

reportAcquireHelper(c, fn, mfk) ==
    Report(c, fn, srcFuncs[fn].pos, "returns while holding", mutexFieldKeyName(mfk), 0)

reportCallerMissingUnlock(c, cs, mfk) ==
    Report(c, cs.Caller, cs.Pos, "calls acquire helper, never releases",
           mutexFieldKeyName(mfk), cs.Callee)

HasFact(c, fn, set, mfk) == fn \in DOMAIN c.funcFacts /\ mfk \in c.funcFacts[fn][set]

\* The caller-side half of checkCallersOfAcquireHelpers for one call site.
CallerReportsIn(c, cs, returnsHolding) ==
    Concat([k \in DOMAIN returnsHolding |->
        IF HasFact(c, cs.Caller, "ReturnsHolding", returnsHolding[k])
              \/ HasFact(c, cs.Caller, "Releases", returnsHolding[k])
        THEN <<>>
        ELSE reportCallerMissingUnlock(c, cs, returnsHolding[k])])

CallerReports(c, cs, order) ==
    IF cs.Callee \notin DOMAIN c.funcFacts THEN <<>>
    ELSE The({CallerReportsIn(c, cs, returnsHolding) :
                returnsHolding \in {RangeOf(c.funcFacts[cs.Callee].ReturnsHolding, order)}})

AcquireHelperReportsIn(c, fns, order) ==
    Concat([k \in DOMAIN fns |->
        The({Concat([j \in DOMAIN returnsHolding |->
                        reportAcquireHelper(c, fns[k], returnsHolding[j])]) :
               returnsHolding \in {RangeOf(c.funcFacts[fns[k]].ReturnsHolding, order)}})])

\* The two loops of checkCallersOfAcquireHelpers: over the function facts,
\* then over the call sites.
AcquireHelperReports(c, order) ==
    The({AcquireHelperReportsIn(c, fns, order) :
           fns \in {RangeOf(DOMAIN c.funcFacts, order)}})
      \o Concat([k \in DOMAIN c.callSites |-> CallerReports(c, c.callSites[k], order)])

checkCallersOfAcquireHelpers ==
    /\ pc = "checkCallersOfAcquireHelpers"
    /\ \E order \in MapOrders : diags' = diags \o AcquireHelperReports(ctx, order)
    /\ ctx' = [ctx EXCEPT !.funcFacts =
                 [f \in (DOMAIN @) \cup
                        {ctx.callSites[k].Caller : k \in
                            {j \in DOMAIN ctx.callSites :
                                /\ ctx.callSites[j].Callee \in DOMAIN ctx.funcFacts
                                /\ ctx.funcFacts[ctx.callSites[j].Callee].ReturnsHolding # {}}}
                    |-> IF f \in DOMAIN @ THEN @[f] ELSE newFuncLockFacts]]
    /\ pc' = "reportDeferredLockLeaks"
    /\ UNCHANGED <<resolver, srcFuncs, fnIdx, stack, wctx, log>>

(***************************************************************************)
(* Phases 3.9 and 3.9.3: the reports deferred from the walk.               *)
(***************************************************************************)
functionRequiresMutex(c, fn, ref) ==
    HasFact(c, fn, "Requires", lockRefToMutexFieldKey(ref))

reportLockLeak(c, cand) ==
    Report(c, cand.Fn, cand.Pos, "return without unlocking",
           lockRefName(cand.Ref), cand.AcquirePos)

\* The loop body without the ReturnsHolding test.
LeakReportNoHelperCheck(c, cand) ==
    IF functionRequiresMutex(c, cand.Fn, cand.Ref) THEN <<>>
    ELSE reportLockLeak(c, cand)

\* The body of reportDeferredLockLeaks's loop for one candidate.
LeakReport(c, cand) ==
    IF functionRequiresMutex(c, cand.Fn, cand.Ref) THEN <<>>
    ELSE IF HasFact(c, cand.Fn, "ReturnsHolding", lockRefToMutexFieldKey(cand.Ref))
    THEN <<>>
    ELSE reportLockLeak(c, cand)

LeakReportsIn(c, retPositions, order) ==
    Concat([k \in DOMAIN retPositions |->
        The({Concat([j \in DOMAIN candidates |-> LeakReport(c, candidates[j])]) :
               candidates \in {RangeOf(c.lockLeakCandidates[retPositions[k]], order)}})])

\* The loop of reportDeferredLockLeaks over the candidates of every return.
LeakReports(c, order) ==
    The({LeakReportsIn(c, retPositions, order) :
           retPositions \in {RangeOf(DOMAIN c.lockLeakCandidates, order)}})

reportDeferredLockLeaks ==
    /\ pc = "reportDeferredLockLeaks"
    /\ \E order \in MapOrders : diags' = diags \o LeakReports(ctx, order)
    /\ pc' = "reportDeferredUnlockOfUnlocked"
    /\ UNCHANGED <<resolver, srcFuncs, fnIdx, stack, wctx, ctx, log>>

calleeReturnsHolding(c, fn, mfk) ==
    \E k \in DOMAIN c.callSites :
        /\ c.callSites[k].Caller = fn
        /\ HasFact(c, c.callSites[k].Callee, "ReturnsHolding", mfk)

reportUnlockOfUnlocked(c, fn, pos, ref) ==
    Report(c, fn, pos, "Unlock called but not held", lockRefName(ref), 0)

reportDeferredUnlockOfUnlocked ==
    /\ pc = "reportDeferredUnlockOfUnlocked"
    /\ diags' = diags
         \o Concat([k \in DOMAIN ctx.unlockOfUnlockedCandidates |->
               LET cand == ctx.unlockOfUnlockedCandidates[k]
               IN IF functionRequiresMutex(ctx, cand.Fn, cand.Ref) THEN <<>>
                  ELSE IF calleeReturnsHolding(ctx, cand.Fn,
                                               lockRefToMutexFieldKey(cand.Ref))
                  THEN <<>>
                  ELSE reportUnlockOfUnlocked(ctx, cand.Fn, cand.Pos, cand.Ref)])
    /\ pc' = "checkViolations"
    /\ UNCHANGED <<resolver, srcFuncs, fnIdx, stack, wctx, ctx, log>>

(***************************************************************************)
(* Phase 4: direct and interprocedural violations.                         *)
(***************************************************************************)
hasCallers(c, fn) == \E k \in DOMAIN c.callSites : c.callSites[k].Callee = fn

\* shouldSuppressDirectViolation: fn requires the mutex and has callers.
shouldSuppressDirectViolation(c, fn, mfk) ==
    /\ fn \in DOMAIN c.funcFacts
    /\ mfk \in c.funcFacts[fn].Requires
    /\ hasCallers(c, fn)

reportViolation(c, obs, key, guard) ==
    Report(c, obs.Func, obs.Pos, "field is accessed without holding",
           <<key.StructType, key.FieldIndex>>,
           mutexFieldKeyName(GuardKey(key, guard)))

reportWriteUnderSharedLock(c, obs, key, guard) ==
    Report(c, obs.Func, obs.Pos, "field is written while read-locked",
           <<key.StructType, key.FieldIndex>>,
           mutexFieldKeyName(GuardKey(key, guard)))

\* The body of checkViolations's loop for one observation of a guarded field.
ViolationOf(c, key, obs) ==
    LET guard         == c.guards[key]
        hmfs          == {h \in obs.SameBaseMutexFields :
                             h.FieldIndex = guard.MutexFieldIndex}
        held          == hmfs # {}
        heldExclusive == \E h \in hmfs : h.Exclusive
    IN IF isConstructorLike(obs.Func, key.StructType) THEN <<>>
       ELSE IF held /\ ~obs.IsRead /\ ~heldExclusive
       THEN IF isConcurrent(c, obs.Func)
            THEN reportWriteUnderSharedLock(c, obs, key, guard)
            ELSE <<>>
       ELSE IF held THEN <<>>
       ELSE IF ~isConcurrent(c, obs.Func) THEN <<>>
       ELSE IF shouldSuppressDirectViolation(c, obs.Func, GuardKey(key, guard))
       THEN <<>>
       ELSE reportViolation(c, obs, key, guard)

ViolationReportsIn(c, keys) ==
    Concat([k \in DOMAIN keys |->
        Concat([j \in DOMAIN ObservationsOf(c, keys[k]) |->
                  ViolationOf(c, keys[k], ObservationsOf(c, keys[k])[j])])])

\* The loop of checkViolations over the guard map.
ViolationReports(c, order) ==
    The({ViolationReportsIn(c, keys) : keys \in {RangeOf(DOMAIN c.guards, order)}})

checkViolations ==
    /\ pc = "checkViolations"
    /\ \E order \in MapOrders : diags' = diags \o ViolationReports(ctx, order)
    /\ pc' = "checkInterproceduralViolations"
    /\ UNCHANGED <<resolver, srcFuncs, fnIdx, stack, wctx, ctx, log>>

reportMissingLockAtCallSite(c, cs, mfk) ==
    Report(c, cs.Caller, cs.Pos, "must be held when calling",
           mutexFieldKeyName(mfk), cs.Callee)

reportDoubleLockAtCallSite(c, cs, mfk) ==
    Report(c, cs.Caller, cs.Pos, "is already held when calling",
           mutexFieldKeyName(mfk), cs.Callee)

\* The body of checkInterproceduralViolations's loop for one call site.
CallSiteViolations(c, cs, order) ==
    IF ~isConcurrent(c, cs.Caller) THEN <<>>
    ELSE IF cs.Callee \notin DOMAIN c.funcFacts THEN <<>>
    ELSE LET requires == RangeOf(c.funcFacts[cs.Callee].Requires, order)
             acquires == RangeOf(c.funcFacts[cs.Callee].AcquiresTransitive, order)
         IN Concat([k \in DOMAIN requires |->
                IF callerHoldsMutex(cs, requires[k]) THEN <<>>
                ELSE IF isPrePublicationConstructorCall(cs) THEN <<>>
                ELSE IF shouldSuppressDirectViolation(c, cs.Caller, requires[k])
                THEN <<>>
                ELSE reportMissingLockAtCallSite(c, cs, requires[k])])
            \o Concat([k \in DOMAIN acquires |->
                IF callerHoldsMutex(cs, acquires[k])
                THEN reportDoubleLockAtCallSite(c, cs, acquires[k])
                ELSE <<>>])

InterproceduralReports(c, order) ==
    Concat([k \in DOMAIN c.callSites |-> CallSiteViolations(c, c.callSites[k], order)])

checkInterproceduralViolations ==
    /\ pc = "checkInterproceduralViolations"
    /\ \E order \in MapOrders : diags' = diags \o InterproceduralReports(ctx, order)
    /\ pc' = "done"
    /\ UNCHANGED <<resolver, srcFuncs, fnIdx, stack, wctx, ctx, log>>

(***************************************************************************)
(* Phase 0 and the pass as a whole.                                        *)
(***************************************************************************)
\* The function declarations of the file (a function literal is not one),
\* the line of the func keyword and the line of the closing brace, below the
\* last statement of the function and of the function literals in it.
funcDecls == {fn \in DOMAIN srcFuncs : srcFuncs[fn].parent = 0}

RECURSIVE EnclosingDecl(_)
EnclosingDecl(fn) ==
    IF srcFuncs[fn].parent = 0 THEN fn ELSE EnclosingDecl(srcFuncs[fn].parent)

DeclLine(fd) == LineOf(srcFuncs[fd].pos)

BodyEndLine(fd) ==
    LET inside == {srcFuncs[fn].pos : fn \in {g \in DOMAIN srcFuncs : EnclosingDecl(g) = fd}}
                  \cup UNION {{instr.pos : instr \in AllInstrs(fn)} :
                                 fn \in {g \in DOMAIN srcFuncs : EnclosingDecl(g) = fd}}
    IN LineOf(CHOOSE pos \in inside : \A other \in inside : other <= pos) + 1

\* The lines of the //mu:ignore comments: right above a declaration that has
\* muIgnore, and the lines listed in ignoreLines.
IgnoreCommentLines ==
    {DeclLine(fd) - 1 : fd \in {fn \in funcDecls : srcFuncs[fn].muIgnore}}
    \cup UNION {srcFuncs[fn].ignoreLines : fn \in DOMAIN srcFuncs}

\* The comment binds to every declaration that starts within two lines.
findFuncForCommentNearby(commentLine) ==
    LET matching == {fd \in funcDecls :
                        \/ DeclLine(fd) >= commentLine /\ DeclLine(fd) <= commentLine + 2
                        \/ DeclLine(fd) <= commentLine /\ commentLine <= BodyEndLine(fd)}
    IN IF matching = {} THEN 0
       ELSE CHOOSE fd \in matching : \A other \in matching : fd <= other

\* findFuncForComment: the first declaration that starts on the comment's
\* line or on the next one, or that contains the comment; 0 for nil.
findFuncForComment(commentLine) ==
    LET matching == {fd \in funcDecls :
                        \/ DeclLine(fd) >= commentLine /\ DeclLine(fd) <= commentLine + 1
                        \/ DeclLine(fd) <= commentLine /\ commentLine <= BodyEndLine(fd)}
    IN IF matching = {} THEN 0
       ELSE CHOOSE fd \in matching : \A other \in matching : fd <= other

\* parseAnnotations: the directives found in the comments of the package.
parseAnnotations ==
    /\ pc = "parseAnnotations"
    /\ ctx' = [ctx EXCEPT !.annotations =
                 [concurrent |-> {fn \in DOMAIN srcFuncs : srcFuncs[fn].muConcurrent},
                  ignored    |-> {findFuncForComment(line) :
                                     line \in IgnoreCommentLines} \ {0},
                  nolint     |-> {suppressedLine(line) :
                                     line \in UNION {srcFuncs[fn].nolint :
                                                        fn \in DOMAIN srcFuncs}}]]
    /\ pc' = "collectObservations"
    /\ UNCHANGED <<resolver, srcFuncs, fnIdx, stack, wctx, diags, log>>

InitPass(funcs) ==
    /\ srcFuncs = funcs
    /\ pc = "parseAnnotations"
    /\ fnIdx = 1
    /\ stack = <<>>
    /\ wctx = newWalkContext
    /\ ctx = newPassContext
    /\ diags = <<>>
    /\ log = <<>>
    /\ resolver = NoResolution

\* One function of one of the shapes.
Init ==
    \E s \in DOMAIN Shapes : \E f \in ShapeFuncs(s) : \E annot \in AnnotationsOf(s) :
        InitPass(<<Annotated(f, annot)>>)

\* One function with a conditional followed by a loop.
InitLoop == \E f \in LoopFuncs : InitPass(<<f>>)

\* The conditional as written and with its arms exchanged.
InitMirror ==
    \E codes \in MirrorCodes :
        InitPass(<<MkFunc(1, MirrorShape(FALSE), codes), MkFunc(2, MirrorShape(TRUE), codes)>>)

\* A function with one or two returns and a companion, in either order.
InitLeak ==
    \E first \in BOOLEAN :
        IF first
        THEN \E f \in LeakFuncs(1) : \E g \in LeakCompanions(2) : InitPass(<<f, g>>)
        ELSE \E g \in LeakCompanions(1) : \E f \in LeakFuncs(2) : InitPass(<<g, f>>)

\* Two functions that access x.f; the second may be constructor-like.
InitGuard ==
    \E f \in GuardFuncs(1) : \E g \in GuardFuncs(2) : \E ctor \in BOOLEAN :
        InitPass(<<f, IF ctor THEN Returning(g) ELSE g>>)

\* main, worker, helper and setter.
InitCall ==
    \E m \in MainBodiesInUse : \E e \in WorkerBodies : \E h \in HelperBodies :
        InitPass(<<Straight(1, m), Straight(2, e), Straight(3, h),
                   Straight(4, <<"La", "W", "Ua">>)>>)

\* A caller, a function that calls the imported function, and the setter.
InitImport ==
    \E m \in ImportCallerBodies : \E b \in ImportBodies : \E up \in Upstreams :
        /\ srcFuncs = <<Straight(1, m), Straight(2, b),
                        Straight(3, <<"La", "W", "Ua">>)>>
        /\ pc = "parseAnnotations"
        /\ fnIdx = 1
        /\ stack = <<>>
        /\ wctx = newWalkContext
        /\ ctx = [newPassContext EXCEPT !.pass = up]
        /\ diags = <<>>
        /\ log = <<>>
        /\ resolver = NoResolution
    /\ resolver = NoResolution

\* Three functions that take locks in some order.
InitOrder ==
    \E f \in OrderFuncs(1) : \E g \in OrderFuncs(2) : \E h \in OrderFuncs(3) :
        InitPass(<<f, g, h>>)

\* Three functions that nest locks of up to three keys.
InitCycles ==
    \E f \in CycleBodiesInUse : \E g \in CycleBodiesInUse : \E h \in CycleBodiesInUse :
        InitPass(<<Straight(1, f), Straight(2, g), Straight(3, h)>>)

\* A function with a deferred call, and the setter of x.f.
InitDefer ==
    \E f \in DeferFuncs(1) :
        InitPass(<<f, Straight(2, <<"La", "W", "Ua">>)>>)

\* --- One function whose blocks read or write x.f, some of them reached
\* along several paths with different locks held ---
RewalkMenu ==
    << <<"W">>, <<"La">>, <<"R">>, <<"La", "W", "Ua">>, <<"W", "R">>, <<"Lb", "R">> >>

RewalkMenuSize == 5

RewalkMenuInUse ==
    {RewalkMenu[i] : i \in 1..(IF RewalkMenuSize < Len(RewalkMenu)
                               THEN RewalkMenuSize ELSE Len(RewalkMenu))}

RewalkShapes == 1..3

RewalkFuncs(s) ==
    {MkFuncDom(1, Shapes[s], [blk \in DOMAIN Shapes[s] |->
                                 IF blk = 1 THEN <<>> ELSE codes[blk]], ShapeDom[s]) :
        codes \in [2..Len(Shapes[s]) -> RewalkMenuInUse]}

InitRewalk == \E s \in RewalkShapes : \E f \in RewalkFuncs(s) : InitPass(<<f>>)

\* --- A declaration with a //mu:ignore comment above it, two lines above it
\* in its doc comment, or in its body; a function that is a declaration of
\* its own or a function literal in the first one; and the setter ---
IgnoreBodies ==
    << <<"La", "La", "Ua">>, <<"W">>, <<"La">>, <<"Ua">>, <<"La", "W", "Ua">> >>

IgnoreMenuSize == 4

IgnoreBodiesInUse ==
    {IgnoreBodies[i] : i \in 1..(IF IgnoreMenuSize < Len(IgnoreBodies)
                                 THEN IgnoreMenuSize ELSE Len(IgnoreBodies))}

IgnorePlacements == {"above", "group", "inside"}

Ignored(f, placement) ==
    CASE placement = "above"  -> [f EXCEPT !.muIgnore = TRUE]
      [] placement = "group"  -> [f EXCEPT !.ignoreLines = {LineOf(f.pos) - 2}]
      [] placement = "inside" -> [f EXCEPT !.ignoreLines = {LineOf(f.pos) + 1}]

\* The function is a function literal in the body of parent.
Literal(f, parent) == [f EXCEPT !.parent = parent]

InitIgnore ==
    \E placement \in IgnorePlacements : \E b1 \in IgnoreBodiesInUse :
        \E b2 \in IgnoreBodiesInUse : \E parent \in {0, 1} :
            InitPass(<<Ignored(Straight(1, b1), placement),
                       Literal(Straight(2, b2), parent),
                       Straight(3, <<"La", "W", "Ua">>)>>)

\* --- A function (1) that calls setup (2) on x and may store x or y into a
\* map before or after the call, and that may return an S; setup, which
\* writes x.f; the setter (3); and a caller (4) of the first function ---
PublishBodies ==
    << <<"C2", "Px">>, <<"Px", "C2">>, <<"C2">>, <<"Py", "C2">>,
       <<"La", "C2", "Ua", "Px">>, <<"Px", "C2", "Px">> >>

PublishMenuSize == 5

PublishBodiesInUse ==
    {PublishBodies[i] : i \in 1..(IF PublishMenuSize < Len(PublishBodies)
                                  THEN PublishMenuSize ELSE Len(PublishBodies))}

SetupBodies == {<<"W">>, <<"La", "W", "Ua">>, <<"R">>}

OuterBodies == {<<"C1">>, <<"N">>, <<"G2", "C1">>}

InitPublish ==
    \E b \in PublishBodiesInUse : \E ctor \in BOOLEAN : \E setup \in SetupBodies :
        \E outer \in OuterBodies :
            InitPass(<<IF ctor THEN Returning(Straight(1, b)) ELSE Straight(1, b),
                       Straight(2, setup),
                       Straight(3, <<"La", "W", "Ua">>),
                       Straight(4, outer)>>)

\* --- The values of a function, in definition order: the operand of an UnOp
\* is defined before it, and so is the first incoming value of a phi (the
\* one of the edge that enters the loop).  Values are typed by the number
\* of pointers above the struct: an UnOp takes one off its operand, a phi
\* has the type of its incoming values, the operand of a FieldAddr has one.
\* On top of them, two FieldAddr of a mutex field and a phi over them, which
\* may be a loop phi; the resolved operand is one of these three ---
NumValues == 4

MaxPtrs == 3

PtrDepths == [1..NumValues -> 1..MaxPtrs]

BaseValues(v, ptrs) ==
    {Value("Alloc", 0, <<>>, 0)}
    \cup {Value("UnOp", x, <<>>, 0) :
             x \in {y \in 1..(v - 1) : ptrs[y] = ptrs[v] + 1}}
    \cup {Value("Phi", 0, edges, 0) :
             edges \in {e \in {y \in 1..NumValues : ptrs[y] = ptrs[v]}
                                \X {y \in 1..NumValues : ptrs[y] = ptrs[v]} :
                           e[1] < v}}

\* The well-typed values 1..v, as sequences.
RECURSIVE BaseGraphs(_, _)
BaseGraphs(v, ptrs) ==
    IF v = 0 THEN {<<>>}
    ELSE {Append(g, value) : g \in BaseGraphs(v - 1, ptrs), value \in BaseValues(v, ptrs)}

TopPhis ==
    {<<NumValues + 1, NumValues + 1>>, <<NumValues + 1, NumValues + 2>>,
     <<NumValues + 1, NumValues + 3>>, <<NumValues + 3, NumValues + 1>>}

InitResolve ==
    \E ptrs \in PtrDepths : \E g \in BaseGraphs(NumValues, ptrs) :
        \E x \in {y \in 1..NumValues : ptrs[y] = 1} :
            \E edges \in TopPhis : \E v \in {NumValues + 1, NumValues + 3} :
                /\ v = NumValues + 1 => edges = <<NumValues + 1, NumValues + 1>>
                /\ resolver = [phase |-> "call", v |-> v,
                               values |-> g \o <<Value("FieldAddr", x, <<>>, 0),
                                                 Value("FieldAddr", x, <<>>, 0),
                                                 Value("Phi", 0, edges, 0)>>]
                /\ srcFuncs = <<>>
                /\ pc = "resolveLockRef"
                /\ fnIdx = 1
                /\ stack = <<>>
                /\ wctx = newWalkContext
                /\ ctx = newPassContext
                /\ diags = <<>>
                /\ log = <<>>

\* --- A chain of calls: every function calls the next, the last one writes
\* x.f without a lock and locks x.b; a setter follows.  The longest chain is
\* deeper than the propagation loops are allowed sweeps. ---
ChainLen == maxIterations + 2

MaxShortChain == 60

ChainLens == (2..MaxShortChain) \cup {ChainLen}

ChainFuncs(len) ==
    [f \in 1..(len + 1) |->
        IF f < len THEN MkFunc(f, << <<>> >>, << <<"Cn">> >>)
        ELSE IF f = len THEN MkFunc(f, << <<>> >>, << <<"W", "Lb", "Ub">> >>)
        ELSE Straight(f, <<"La", "W", "Ua">>)]

\* The pass on a chain, from its start.
InitChainPass == \E len \in ChainLens : InitPass(ChainFuncs(len))

\* What the pass has built for a chain when propagateRequirements starts:
\* the observations and the guard of x.f, one call site per link, the facts
\* of the last function and of the setter, and the record of the walk.
ChainContext(len) ==
    LET field == [StructType |-> "S", FieldIndex |-> xf.fieldIndex]
        mua   == [StructType |-> "S", FieldIndex |-> xa.fieldIndex]
        mub   == [StructType |-> "S", FieldIndex |-> xb.fieldIndex]
    IN [newPassContext EXCEPT
          !.observations = (field :>
              << [Pos |-> PosAt(len, 1, 1), SameBaseMutexFields |-> {},
                  IsRead |-> FALSE, Func |-> len],
                 [Pos |-> PosAt(len + 1, 1, 2),
                  SameBaseMutexFields |->
                      {[FieldIndex |-> xa.fieldIndex, Exclusive |-> TRUE]},
                  IsRead |-> FALSE, Func |-> len + 1] >>),
          !.guards = (field :>
              [MutexFieldIndex |-> xa.fieldIndex, NeedsExclusive |-> TRUE]),
          !.observedAt =
              {[pos |-> PosAt(len, 1, 1), isRead |-> FALSE, field |-> field],
               [pos |-> PosAt(len + 1, 1, 2), isRead |-> FALSE, field |-> field]},
          !.callSites =
              [f \in 1..(len - 1) |->
                  [Pos |-> PosAt(f, 1, 1), Caller |-> f, Callee |-> f + 1,
                   HeldByStructType |-> EmptyMap, ReceiverValue |-> xa.base]],
          !.funcFacts =
              (len :> [newFuncLockFacts EXCEPT !.Requires = {mua},
                          !.Acquires = {mub}, !.Releases = {mub}])
              @@ ((len + 1) :> [newFuncLockFacts EXCEPT
                          !.Acquires = {mua}, !.Releases = {mua}])]

ChainLog(len) ==
    LET none == [held |-> {}, deferredUnlocks |-> {}]
    IN [k \in 1..(len + 2) |->
          [fn |-> IF k <= len + 1 THEN k ELSE len + 1,
           from |-> IF k <= len + 1 THEN 0 ELSE 1,
           block |-> IF k <= len + 1 THEN 1 ELSE 2,
           visited |-> FALSE, outcome |-> "first", reportCall |-> FALSE,
           startLs |-> none, inbound |-> none, stored |-> none,
           flagged |-> FALSE, after |-> none, endLs |-> none, ndiags |-> 0]]

\* The pass on a chain, at the start of propagateRequirements.
InitChain ==
    \E len \in ChainLens :
        /\ srcFuncs = ChainFuncs(len)
        /\ pc = "propagateRequirements"
        /\ fnIdx = len + 2
        /\ stack = <<>>
        /\ wctx = newWalkContext
        /\ ctx = ChainContext(len)
        /\ diags = <<>>
        /\ log = ChainLog(len)
        /\ resolver = NoResolution

\* The pass from its start reaches propagateRequirements in that state.
ChainPassReachesInitChain ==
    pc = "propagateRequirements" =>
        /\ fnIdx = Len(srcFuncs) + 1
        /\ stack = <<>>
        /\ wctx = newWalkContext
        /\ ctx = ChainContext(Len(srcFuncs) - 1)
        /\ diags = <<>>
        /\ log = ChainLog(Len(srcFuncs) - 1)


\* collectObservations has walked every function.
CollectObservationsDone ==
    /\ pc = "collectObservations"
    /\ stack = <<>>
    /\ fnIdx > Len(srcFuncs)
    /\ pc' = "importFacts"
    /\ UNCHANGED <<resolver, srcFuncs, fnIdx, stack, wctx, ctx, diags, log>>

\* One call resolveLockRef(v).
ResolveLockRefCall ==
    /\ pc = "resolveLockRef"
    /\ resolver.phase = "call"
    /\ resolver' = [resolver EXCEPT !.phase = "returned"]
                       @@ [ref |-> resolveLockRef(resolver.values, resolver.v)]
    /\ UNCHANGED <<srcFuncs, pc, fnIdx, stack, wctx, ctx, diags, log>>

Next ==
    \/ parseAnnotations
    \/ WalkFunction
    \/ WalkSuccessor
    \/ WalkReturn
    \/ CollectObservationsDone
    \/ importFacts
    \/ inferGuards
    \/ deriveInitialRequirements
    \/ propagateRequirements
    \/ computeConcurrentContext
    \/ collectInterproceduralLockOrderEdges
    \/ detectAndReportLockOrderCycles
    \/ computeReturnsHolding
    \/ checkCallersOfAcquireHelpers
    \/ reportDeferredLockLeaks
    \/ reportDeferredUnlockOfUnlocked
    \/ checkViolations
    \/ checkInterproceduralViolations

Spec == Init /\ [][Next]_vars

SpecLoop == InitLoop /\ [][Next]_vars

SpecMirror == InitMirror /\ [][Next]_vars

SpecCycles == InitCycles /\ [][Next]_vars

SpecLeak == InitLeak /\ [][Next]_vars

SpecGuard == InitGuard /\ [][Next]_vars

SpecCall == InitCall /\ [][Next]_vars

SpecDefer == InitDefer /\ [][Next]_vars

SpecOrder == InitOrder /\ [][Next]_vars

SpecImport == InitImport /\ [][Next]_vars

SpecResolve == InitResolve /\ [][ResolveLockRefCall]_vars

SpecPublish == InitPublish /\ [][Next]_vars

SpecIgnore == InitIgnore /\ [][Next]_vars

SpecRewalk == InitRewalk /\ [][Next]_vars

SpecChainPass == InitChainPass /\ [][Next]_vars

\* propagateRequirements alone, on the chains.
SpecChain == InitChain /\ [][propagateRequirements]_vars

(***************************************************************************)
(* Vocabulary of the properties.                                           *)
(***************************************************************************)
WalkDone == pc \notin {"parseAnnotations", "collectObservations", "overflow"}

IsInconsistent(d) == d.text = "inconsistent lock state"

InconsistentAt(fn, block) ==
    {i \in DOMAIN diags :
        IsInconsistent(diags[i]) /\ diags[i].fn = fn /\ diags[i].block = block}

InconsistentIn(fn) ==
    {i \in DOMAIN diags : IsInconsistent(diags[i]) /\ diags[i].fn = fn}

\* The target of the edge dominates its source.
OverBackEdge(fn, from, block) == <<block, from>> \in srcFuncs[fn].dom

\* A second or later arrival at a block with several predecessors, over an
\* edge that is no back-edge, with a held set other than the stored one.
DifferingMergeArrival(e) ==
    /\ e.visited
    /\ e.from # 0
    /\ NumPreds(srcFuncs[e.fn], e.block) > 1
    /\ ~OverBackEdge(e.fn, e.from, e.block)
    /\ HeldRefs(e.inbound) # HeldRefs(e.stored)

DifferingRefs(e) ==
    (HeldRefs(e.inbound) \ HeldRefs(e.stored))
        \cup (HeldRefs(e.stored) \ HeldRefs(e.inbound))

SiteSuppressed(fn, block) ==
    \/ srcFuncs[fn].muIgnore
    \/ LineOf(blockPos(srcFuncs[fn].blocks[block])) - 1 \in srcFuncs[fn].nolint

IsLockOp(instr) == instr.op \in {"Call", "Defer"} /\ instr.method # ""

\* if c { mu.Lock() } at the top of the function and no other lock
\* operation anywhere: block 1 branches to 2 and 3, block 2 locks and joins
\* block 3, and block 3 has a position to report at.
OneSidedConditional(fn) ==
    LET f == srcFuncs[fn]
    IN /\ Len(f.blocks) >= 3
       /\ f.blocks[1].succs = <<2, 3>>
       /\ f.blocks[2].succs = <<3>>
       /\ Len(f.blocks[2].instrs) = 1
       /\ f.blocks[2].instrs[1].op = "Call"
       /\ f.blocks[2].instrs[1].method = "Lock"
       /\ \A blk \in (DOMAIN f.blocks) \ {2} :
             \A k \in DOMAIN f.blocks[blk].instrs : ~IsLockOp(f.blocks[blk].instrs[k])
       /\ blockPos(f.blocks[3]) # NoPos
       /\ ~f.muIgnore
       /\ f.nolint = {}

\* The stored entry state a walkBlock call leaves behind for its block.
EntryLeft(e) == IF e.outcome = "merged" THEN e.startLs ELSE e.after

ModeConflicts(e) ==
    {h.ref : h \in {g \in e.inbound.held :
                      \E k \in e.stored.held : k.ref = g.ref /\ k.exclusive # g.exclusive}}

(***************************************************************************)
(* Properties of the walk.                                                 *)
(***************************************************************************)
\* C1: the walk of every function terminates: no call of walkBlock finds the
\* arguments and walk context that a call still on the stack found, which
\* would repeat that call's course without end.
C1_WalkTerminates == pc # "overflow"

\* C4: a function whose only lock operation is the Lock in one arm of a
\* leading two-branch conditional gets, once walked, exactly one
\* inconsistent-branch diagnostic, and it is at the merge block (block 3).
C4_ExactlyOneAtMerge ==
    (WalkDone /\ OneSidedConditional(1))
        => /\ Cardinality(InconsistentIn(1)) = 1
           /\ \A i \in InconsistentIn(1) : diags[i].block = 3

C7_NoReportOverBackEdge ==
    \A i \in DOMAIN diags :
        IsInconsistent(diags[i])
            => ~OverBackEdge(diags[i].fn, diags[i].from, diags[i].block)

\* A loop header reached over its back-edge with a held set other than the
\* stored one, before any report for the header, and nothing reported.
C7_Witness ==
    \E i \in DOMAIN log :
        /\ log[i].visited
        /\ OverBackEdge(log[i].fn, log[i].from, log[i].block)
        /\ NumPreds(srcFuncs[log[i].fn], log[i].block) > 1
        /\ HeldRefs(log[i].inbound) # HeldRefs(log[i].stored)
        /\ ~log[i].flagged
        /\ ~SiteSuppressed(log[i].fn, log[i].block)
        /\ blockPos(srcFuncs[log[i].fn].blocks[log[i].block]) # NoPos
        /\ log[i].ndiags = 0

\* C8: when a block is reached holding a lock in the mode opposite to the one
\* stored for the block, the stored entry state left by that arrival does not
\* contain the lock.
C8_ConflictingModesDropped ==
    \A i \in DOMAIN log :
        log[i].visited
            => \A ref \in ModeConflicts(log[i]) : ref \notin HeldRefs(EntryLeft(log[i]))

(***************************************************************************)
(* Properties of guard inference and of the violation checks.              *)
(***************************************************************************)
IsFieldViolation(d) ==
    d.text \in {"field is accessed without holding",
                "field is written while read-locked",
                "must be held when calling"}

\* The accesses the analysis counts: those outside constructor-like functions.
CountedAccesses(key) ==
    {obs \in Range(ctx.observations[key]) : ~isConstructorLike(obs.Func, key.StructType)}

HeldAt(obs, m) == \E h \in obs.SameBaseMutexFields : h.FieldIndex = m

HeldExclusivelyAt(obs, m) ==
    \E h \in obs.SameBaseMutexFields : h.FieldIndex = m /\ h.Exclusive

\* Every counted access of every field happens with mutex field m of the
\* same instance held.
AllLockedUnder(m) ==
    \A key \in DOMAIN ctx.observations : \A obs \in CountedAccesses(key) : HeldAt(obs, m)

\* ... held exclusively at the writes, and no mutex field declared before m
\* is held at every counted write of a field.
FirstAndExclusive(m) ==
    \A key \in DOMAIN ctx.observations :
        LET writes == {obs \in CountedAccesses(key) : ~obs.IsRead}
        IN /\ \A obs \in writes : HeldExclusivelyAt(obs, m)
           /\ \A n \in MutexFieldIndexes :
                 (n < m /\ writes # {}) => \E obs \in writes : ~HeldAt(obs, n)

MaxPathLen == 3

\* The concurrent entry points: those the pass detects; when it detects none
\* every function counts as concurrent and a path starts where nothing calls.
EntryPoints ==
    IF ctx.concurrentFuncs.isNil
    THEN {fn \in DOMAIN srcFuncs : ~hasCallers(ctx, fn)}
    ELSE detectConcurrentEntrypoints

\* p is a chain of call sites from an entry point to fn, none holding mfk.
UnlockedPath(p, fn, mfk) ==
    /\ ctx.callSites[p[1]].Caller \in EntryPoints
    /\ \A k \in 1..(Len(p) - 1) :
          ctx.callSites[p[k]].Callee = ctx.callSites[p[k + 1]].Caller
    /\ ctx.callSites[p[Len(p)]].Callee = fn
    /\ \A k \in DOMAIN p : ~callerHoldsMutex(ctx.callSites[p[k]], mfk)

\* The direct report for guard mfk in fn that checkViolations holds back.
SuppressedDirect(fn, mfk) ==
    \E key \in DOMAIN ctx.guards : \E obs \in CountedAccesses(key) :
        /\ obs.Func = fn
        /\ GuardKey(key, ctx.guards[key]) = mfk
        /\ ~GuardHeldAt(obs, ctx.guards[key])
        /\ isConcurrent(ctx, fn)
        /\ shouldSuppressDirectViolation(ctx, fn, mfk)

MissingLockReportedAt(cs, mfk) ==
    \E i \in DOMAIN diags :
        /\ diags[i].text = "must be held when calling"
        /\ diags[i].pos = cs.Pos
        /\ diags[i].name = mutexFieldKeyName(mfk)

\* C3: when the direct report for guard m in F is held back because F
\* requires m and has callers, every chain of calls from a concurrent entry
\* point to F on which m is nowhere held has a missing-lock report for m at
\* one of its call sites.
C3_SuppressedSurfacesOnEveryPath ==
    pc = "done"
        => \A fn \in DOMAIN srcFuncs :
             \A mfk \in {[StructType |-> "S", FieldIndex |-> m] : m \in MutexFieldIndexes} :
               SuppressedDirect(fn, mfk)
                 => \A n \in 1..MaxPathLen : \A p \in [1..n -> DOMAIN ctx.callSites] :
                       UnlockedPath(p, fn, mfk)
                         => \E k \in DOMAIN p :
                               MissingLockReportedAt(ctx.callSites[p[k]], mfk)

(***************************************************************************)
(* Properties of acquire helpers and lock leaks.                           *)
(***************************************************************************)
ReturnBlocks(fn) ==
    {blk \in DOMAIN srcFuncs[fn].blocks :
        \E k \in DOMAIN srcFuncs[fn].blocks[blk].instrs :
            srcFuncs[fn].blocks[blk].instrs[k].op = "Return"}

\* The walkBlock calls that processed the instructions of a block.
Processings(fn, blk) ==
    {i \in DOMAIN log : /\ log[i].fn = fn
                        /\ log[i].block = blk
                        /\ log[i].outcome \in {"first", "merged"}}

\* The lock state with which the return ending blk was last processed.
LastReturnState(fn, blk) ==
    log[CHOOSE i \in Processings(fn, blk) : \A j \in Processings(fn, blk) : j <= i].endLs

HoldsUndeferred(ls, mfk) ==
    \E h \in ls.held :
        lockRefToMutexFieldKey(h.ref) = mfk /\ h.ref \notin ls.deferredUnlocks

\* C9: if ReturnsHolding(F) contains m, every return of F was last processed
\* in a state that holds a lock with key m without a deferred-unlock marker.
C9_ReturnsHoldingAtEveryReturn ==
    \A fn \in DOMAIN ctx.funcFacts : \A mfk \in ctx.funcFacts[fn].ReturnsHolding :
        \A blk \in ReturnBlocks(fn) :
            Processings(fn, blk) # {} => HoldsUndeferred(LastReturnState(fn, blk), mfk)

\* A function with two returns that got a ReturnsHolding fact.
C9_Witness ==
    \E fn \in DOMAIN ctx.funcFacts :
        /\ ctx.funcFacts[fn].ReturnsHolding # {}
        /\ Cardinality(ReturnBlocks(fn)) = 2

IsLeak(d) == d.text = "return without unlocking"

\* C10: no lock-leak diagnostic names a function and a lock with key m when
\* ReturnsHolding of that function contains m.
C10_NoLeakForReturnsHolding ==
    \A fn \in DOMAIN ctx.funcFacts : \A mfk \in ctx.funcFacts[fn].ReturnsHolding :
        \A i \in DOMAIN diags :
            ~(IsLeak(diags[i]) /\ diags[i].fn = fn
                               /\ diags[i].name = mutexFieldKeyName(mfk))

\* The leak reports are out: one function is an acquire helper, the other
\* one got a leak report.
C10_Witness ==
    /\ pc = "done"
    /\ \E fn \in DOMAIN ctx.funcFacts :
          /\ ctx.funcFacts[fn].ReturnsHolding # {}
          /\ \E i \in DOMAIN diags : IsLeak(diags[i]) /\ diags[i].fn # fn

(***************************************************************************)
(* Properties of deferred calls and returns.                               *)
(***************************************************************************)
IsDeferredLockTypo(d) == d.text = "defer Lock will deadlock"

IsAcquireHelper(d) == d.text = "returns while holding"

\* The function locks x.a exclusively, then defers x.a.Lock(), and has no
\* other lock operation before it returns.
LocksThenDefersLock(fn) ==
    LET ins == srcFuncs[fn].blocks[1].instrs
    IN /\ Len(srcFuncs[fn].blocks) = 1
       /\ Len(ins) >= 3
       /\ ins[1].op = "Call" /\ ins[1].method = "Lock" /\ ins[1].ref = xa
       /\ ins[2].op = "Defer" /\ ins[2].method = "Lock" /\ ins[2].ref = xa
       /\ \A k \in 3..Len(ins) : ins[k].op \in {"UnOp", "Return"}

DiagsOf(fn) == {i \in DOMAIN diags : diags[i].fn = fn}

\* C11: a function that locks mu, then defers mu.Lock() and returns gets
\* exactly one diagnostic from the finished pass: the deferred-Lock typo at
\* the defer statement, and no lock-leak or returns-while-holding report.
C11_OnlyTheTypoDiagnostic ==
    \A fn \in DOMAIN srcFuncs :
        (pc = "done" /\ LocksThenDefersLock(fn))
            => /\ Cardinality(DiagsOf(fn)) = 1
               /\ \A i \in DiagsOf(fn) :
                     /\ IsDeferredLockTypo(diags[i])
                     /\ diags[i].pos = srcFuncs[fn].blocks[1].instrs[2].pos

\* Blocks reachable from the entry block without passing through a block of ds.
RECURSIVE ReachAvoidingAll(_, _, _)
ReachAvoidingAll(blocks, ds, seen) ==
    LET more == {t \in DOMAIN blocks :
                    /\ t \notin ds
                    /\ t \notin seen
                    /\ \E a \in seen : t \in Range(blocks[a].succs)}
    IN IF more = {} THEN seen ELSE ReachAvoidingAll(blocks, ds, seen \cup more)

\* The blocks of fn that hold a deferred Unlock or RUnlock of ref.
DeferUnlockBlocks(fn, ref) ==
    {blk \in DOMAIN srcFuncs[fn].blocks :
        \E k \in DOMAIN srcFuncs[fn].blocks[blk].instrs :
            LET ins == srcFuncs[fn].blocks[blk].instrs[k]
            IN ins.op = "Defer" /\ ins.method \in {"Unlock", "RUnlock"} /\ ins.ref = ref}

\* Every path from the entry of fn to the return that ends blk passes a
\* deferred unlock of ref.
DeferOnEveryPath(fn, blk, ref) ==
    LET ds == DeferUnlockBlocks(fn, ref)
    IN blk \notin ReachAvoidingAll(srcFuncs[fn].blocks, ds, {1} \ ds)

ReturnPos(fn, blk) ==
    LET ins == srcFuncs[fn].blocks[blk].instrs IN ins[Len(ins)].pos

\* C12: when a deferred unlock of r lies on every path to a return, no leak
\* candidate and no lock-leak diagnostic exists for r at that return.
C12_NoLeakBehindDeferredUnlock ==
    \A fn \in DOMAIN srcFuncs : \A blk \in ReturnBlocks(fn) : \A ref \in {xa, xb} :
        DeferOnEveryPath(fn, blk, ref)
            => /\ \A c \in AllLeakCandidates(ctx) :
                     ~(c.Fn = fn /\ c.Pos = ReturnPos(fn, blk) /\ c.Ref = ref)
               /\ \A i \in DOMAIN diags :
                     ~(/\ IsLeak(diags[i])
                       /\ diags[i].fn = fn
                       /\ diags[i].pos = ReturnPos(fn, blk)
                       /\ diags[i].name = lockRefName(ref))

\* A finished pass over a function that locks x.a, defers its unlock and
\* then returns early on a condition: both returns were processed with x.a
\* held.
C12_Witness ==
    /\ pc = "done"
    /\ \E fn \in DOMAIN srcFuncs :
          /\ Cardinality(ReturnBlocks(fn)) = 2
          /\ 1 \in DeferUnlockBlocks(fn, xa)
          /\ \A blk \in ReturnBlocks(fn) :
                /\ blk # 1
                /\ ReturnPos(fn, blk) # NoPos
                /\ Processings(fn, blk) # {}
                /\ xa \in HeldRefs(LastReturnState(fn, blk))

\* The walk of function fn has finished.
WalkFinished(fn) ==
    \/ pc \notin {"parseAnnotations", "collectObservations", "overflow"}
    \/ pc = "collectObservations" /\ fn < fnIdx

StoredCandidates(pos) ==
    IF pos \in DOMAIN ctx.lockLeakCandidates THEN ctx.lockLeakCandidates[pos] ELSE {}

\* C13: once the walk of a function has finished, the leak candidates of
\* the function stored for each of its return positions are exactly those of
\* the last processing of that return: the held locks of that state without
\* a deferred unlock.
C13_CandidatesOfLastProcessing ==
    \A fn \in DOMAIN srcFuncs : \A blk \in ReturnBlocks(fn) :
        (WalkFinished(fn) /\ Processings(fn, blk) # {})
            => {c \in StoredCandidates(ReturnPos(fn, blk)) : c.Fn = fn}
                  = {[Fn |-> fn, Pos |-> ReturnPos(fn, blk), Ref |-> h.ref, AcquirePos |-> h.pos] :
                        h \in {g \in LastReturnState(fn, blk).held :
                                  g.ref \notin LastReturnState(fn, blk).deferredUnlocks}}

(***************************************************************************)
(* Properties of the propagation of requirements and acquisitions.         *)
(***************************************************************************)
PropagationDone ==
    pc \notin {"parseAnnotations", "collectObservations", "importFacts", "inferGuards",
               "deriveInitialRequirements", "propagateRequirements", "overflow"}

FactsOf(c, fn, set) == IF fn \in DOMAIN c.funcFacts THEN c.funcFacts[fn][set] ELSE {}

\* The propagation rule at one call site: what the callee requires and the
\* caller does not hold at the site, the caller requires.
RuleHoldsAt(c, cs) ==
    \A mfk \in FactsOf(c, cs.Callee, "Requires") :
        callerHoldsMutex(cs, mfk) \/ mfk \in FactsOf(c, cs.Caller, "Requires")

\* C14: once propagateRequirements has run, the Requires sets are closed
\* under the propagation rule at every call site, whatever the size of the
\* call graph: the loop never stops while a requirement is still to travel.
C14_RequiresClosed ==
    PropagationDone => \A i \in DOMAIN ctx.callSites : RuleHoldsAt(ctx, ctx.callSites[i])

MutexKeys ==
    {[StructType |-> t, FieldIndex |-> i] :
        t \in StructTypes \cup ImportedTypes, i \in MutexFieldIndexes}

\* Monotone additions to sets over functions and mutex keys: a sweep that
\* changes something adds a pair, so the loop is over after that many sweeps
\* and one; the cap ends it at the latest.
LoopBound ==
    LET pairs == NumFuncs * Cardinality(MutexKeys) + 1
    IN IF pairs < maxIterations THEN pairs ELSE maxIterations

RecursiveCalls ==
    \E i, j \in DOMAIN ctx.callSites :
        /\ ctx.callSites[i].Caller = ctx.callSites[j].Callee
        /\ ctx.callSites[i].Callee = ctx.callSites[j].Caller

\* C15: both loops of propagateRequirements end after finitely many sweeps on
\* every call graph, recursive ones included: after no more sweeps than there
\* are pairs of a function and a mutex key, plus one, and never more than the
\* cap.
C15_FixedPointsTerminate ==
    pc = "propagateRequirements" =>
        \A order \in MapOrders :
            The({/\ required.sweeps <= LoopBound
                 /\ AcquireFixpoint(SeedAcquiresTransitive(required.facts),
                                    ctx.callSites).sweeps <= LoopBound :
                   required \in {RequireFixpoint(ctx.funcFacts, ctx.callSites, order)}})

\* A recursive call graph on which both loops take more than two sweeps.
C15_Witness ==
    /\ pc = "propagateRequirements"
    /\ RecursiveCalls
    /\ \E order \in MapOrders :
          The({/\ required.sweeps > 2
               /\ AcquireFixpoint(SeedAcquiresTransitive(required.facts),
                                  ctx.callSites).sweeps > 2 :
                 required \in {RequireFixpoint(ctx.funcFacts, ctx.callSites, order)}})

FactSets == {"Requires", "Acquires", "AcquiresTransitive"}

SameFactSets(c, funcFacts) ==
    \A fn \in (DOMAIN c.funcFacts) \cup (DOMAIN funcFacts) : \A set \in FactSets :
        FactsOf(c, fn, set) = (IF fn \in DOMAIN funcFacts THEN funcFacts[fn][set] ELSE {})

\* C16: the propagator is idempotent: run again on the facts it has just
\* produced, propagateRequirements changes no Requires, Acquires or
\* AcquiresTransitive set of any function.
C16_PropagatorIdempotent ==
    pc = "computeConcurrentContext" =>
        \A order \in MapOrders :
            SameFactSets(ctx, Propagate(ctx.funcFacts, ctx.callSites, order))

\* The functions from which a function of the set is reached through at most
\* n recorded call sites.
RECURSIVE Reaching(_, _, _)
Reaching(fns, callSites, n) ==
    IF n = 0 THEN fns
    ELSE IF n = 1
    THEN fns \cup {callSites[i].Caller :
                     i \in {j \in DOMAIN callSites : callSites[j].Callee \in fns}}
    ELSE The({Reaching(half, callSites, n - (n \div 2)) :
                half \in {Reaching(fns, callSites, n \div 2)}})

\* The functions that acquire mfk themselves, and the imported ones whose
\* fact records mfk as acquired, directly or through their callees.
Acquirers(c, mfk) ==
    {fn \in DOMAIN c.funcFacts : mfk \in c.funcFacts[fn].Acquires}
    \cup {fn \in (DOMAIN c.funcFacts) \cap (DOMAIN c.pass.funcLockFacts) :
            /\ c.pass.factTypes
            /\ mfk \in mutexRefsToKeys(c.pass.funcLockFacts[fn].Acquires
                                         \cup c.pass.funcLockFacts[fn].AcquiresTransitive)}

\* C17: when the closure of the acquisitions has run, m is in
\* AcquiresTransitive(F) exactly when some function reached from F through
\* zero or more recorded call sites acquires m or has an imported fact that
\* records m as acquired.
C17_TransitiveIffReachableAcquirer ==
    pc = "computeConcurrentContext" =>
        \A mfk \in MutexKeys :
            {fn \in DOMAIN ctx.funcFacts : mfk \in ctx.funcFacts[fn].AcquiresTransitive}
                = Reaching(Acquirers(ctx, mfk), ctx.callSites, NumFuncs)

\* C18: from the end of propagateRequirements to the end of the pass, what a
\* function with a fact record acquires is among its transitive acquisitions,
\* for the records of the walk, for those of imported facts and for those
\* created later.
C18_AcquiresWithinTransitive ==
    PropagationDone =>
        \A fn \in DOMAIN ctx.funcFacts :
            ctx.funcFacts[fn].Acquires \subseteq ctx.funcFacts[fn].AcquiresTransitive

\* The pass is over, with acquisitions recorded for the imported function
\* and for a function of the package.
C18_Witness ==
    /\ pc = "done"
    /\ ImportedFn \in DOMAIN ctx.funcFacts
    /\ ctx.funcFacts[ImportedFn].Acquires # {}
    /\ \E fn \in DOMAIN srcFuncs :
          fn \in DOMAIN ctx.funcFacts /\ ctx.funcFacts[fn].Acquires # {}

(***************************************************************************)
(* Properties of the lock-order graph.                                     *)
(***************************************************************************)
IsCycleReport(d) ==
    d.text \in {"lock ordering cycle on", "lock ordering cycle between"}

CyclesReported == pc \notin {"parseAnnotations", "collectObservations", "importFacts",
                             "inferGuards", "deriveInitialRequirements",
                             "propagateRequirements", "computeConcurrentContext",
                             "collectInterproceduralLockOrderEdges",
                             "detectAndReportLockOrderCycles", "overflow"}

\* The cycles of a graph: sequences of its edges, each ending where the next
\* starts and the last where the first starts, through distinct keys.
IsCycle(p) ==
    /\ \A i \in 1..(Len(p) - 1) : p[i].To = p[i + 1].From
    /\ p[Len(p)].To = p[1].From
    /\ \A i, j \in DOMAIN p : i # j => p[i].From # p[j].From

CyclesOf(g) ==
    UNION {{p \in [1..n -> GraphEdges(g)] : IsCycle(p)} :
             n \in 1..Cardinality(DOMAIN g)}

CycleKeys(p) == {mutexFieldKeyName(p[i].From) : i \in DOMAIN p}

\* The mutexes a cycle diagnostic names.
ReportedKeys(d) ==
    IF d.text = "lock ordering cycle on" THEN {d.name} ELSE {d.name, d.arg}

CycleIsReported(p) ==
    \E i \in DOMAIN diags : IsCycleReport(diags[i]) /\ ReportedKeys(diags[i]) = CycleKeys(p)

\* C19: every cycle of the lock-order graph with an edge from a concurrent
\* function is reported, and a cycle is reported only when a cycle through
\* the same mutexes has an edge from a concurrent function; also when several
\* functions have contributed edges between the same two keys.
C19_ConcurrentCyclesReported ==
    CyclesReported =>
        /\ \A p \in CyclesOf(ctx.lockOrderGraph) :
               hasConcurrent(ctx, p) => CycleIsReported(p)
        /\ \A i \in DOMAIN diags :
               IsCycleReport(diags[i]) =>
                  \E p \in CyclesOf(ctx.lockOrderGraph) :
                     hasConcurrent(ctx, p) /\ CycleKeys(p) = ReportedKeys(diags[i])

\* A directed cycle: some key reaches itself over one edge or more.
RECURSIVE ReachedKeys(_, _)
ReachedKeys(g, keys) ==
    LET more == {e.To : e \in {d \in GraphEdges(g) : d.From \in keys}}
    IN IF more \subseteq keys THEN keys ELSE ReachedKeys(g, keys \cup more)

HasDirectedCycle(g) ==
    \E e \in GraphEdges(g) : e.From \in ReachedKeys(g, {e.To})

\* C20: detectCycles returns a cycle exactly when the lock-order graph has a
\* directed cycle, a self-edge included, whatever the order in which the
\* walk added the edges.
C20_CycleFoundIffCycleExists ==
    pc = "detectAndReportLockOrderCycles" =>
        \A order \in MapOrders :
            (detectCycles(ctx.lockOrderGraph, order) # <<>>)
                <=> HasDirectedCycle(ctx.lockOrderGraph)

\* A graph whose only cycle is a self-edge, and a graph with edges between
\* the same two keys from several functions, both with a cycle found.
C20_Witness ==
    /\ pc = "detectAndReportLockOrderCycles"
    /\ \A order \in MapOrders : detectCycles(ctx.lockOrderGraph, order) # <<>>
    /\ \E e \in GraphEdges(ctx.lockOrderGraph) : e.From = e.To
    /\ \A e \in GraphEdges(ctx.lockOrderGraph) :
          e.From # e.To => e.To \notin DOMAIN ctx.lockOrderGraph

\* The (from, to) pairs of a cycle, and rotation of one sequence into another.
KeyPairs(cycle) == [i \in DOMAIN cycle |-> <<cycle[i].From, cycle[i].To>>]

IsRotation(p, q) ==
    /\ Len(p) = Len(q)
    /\ \E k \in 0..(Len(p) - 1) :
          \A i \in DOMAIN p : q[i] = p[((i + k - 1) % Len(p)) + 1]

\* The discovered cycles that no earlier discovered cycle is a rotation of.
FirstOfRotations(discovered) ==
    {j \in DOMAIN discovered :
        ~\E i \in 1..(j - 1) :
            IsRotation(KeyPairs(discovered[i]), KeyPairs(discovered[j]))}

RetainsFirstOfRotations(discovered, retained) ==
    LET first == FirstOfRotations(discovered)
    IN /\ Len(retained) = Cardinality(first)
       /\ \A j \in first :
             retained[Cardinality({i \in first : i <= j})] = discovered[j]

\* C21: of the cycles the traversal discovers, deduplication drops exactly
\* those whose (from, to) pairs are a rotation of the pairs of a cycle
\* discovered earlier, and retains the others.
C21_DedupIsRotationEquivalence ==
    pc = "detectAndReportLockOrderCycles" =>
        \A order \in MapOrders :
            RetainsFirstOfRotations(discoveredCycles(ctx.lockOrderGraph, order),
                                    detectCycles(ctx.lockOrderGraph, order))

\* The references held just before instruction k of a block entered with the
\* references held: every Lock or RLock before k adds its reference, every
\* Unlock or RUnlock removes it.
RECURSIVE HeldBefore(_, _, _)
HeldBefore(instrs, k, held) ==
    IF k = 1 THEN held
    ELSE LET before == HeldBefore(instrs, k - 1, held)
             instr  == instrs[k - 1]
         IN IF instr.op # "Call" THEN before
            ELSE IF instr.method \in {"Lock", "RLock"} THEN before \cup {instr.ref}
            ELSE IF instr.method \in {"Unlock", "RUnlock"} THEN before \ {instr.ref}
            ELSE before

\* Some function acquired, at the position of the edge, a lock of the key of
\* the edge while it held another reference of that key.
AcquiredHoldingAnotherInstance(edge) ==
    \E i \in DOMAIN log :
        /\ log[i].fn = edge.Fn
        /\ log[i].outcome \notin {"same", "converged"}
        /\ LET instrs == srcFuncs[edge.Fn].blocks[log[i].block].instrs
           IN \E k \in DOMAIN instrs :
                 /\ instrs[k].pos = edge.Pos
                 /\ instrs[k].op = "Call"
                 /\ instrs[k].method \in {"Lock", "RLock"}
                 /\ lockRefToMutexFieldKey(instrs[k].ref) = edge.To
                 /\ \E held \in HeldBefore(instrs, k, HeldRefs(log[i].startLs)) :
                       /\ held # instrs[k].ref
                       /\ lockRefToMutexFieldKey(held) = edge.From

SelfEdges == {e \in GraphEdges(ctx.lockOrderGraph) : e.From = e.To}

\* C22: the lock-order graph has an edge from a key to itself only where a
\* function acquired a lock of that key while holding another reference of
\* the same key; locking a held reference again and calling a function that
\* acquires a held key add no such edge.
C22_SelfEdgeOnlyAcrossInstances ==
    \A e \in SelfEdges : AcquiredHoldingAnotherInstance(e)

\* The pass is over for a package where one function holds x.a and locks
\* y.a, one locks x.a twice, and one calls, holding x.a, a function that
\* acquires x.a.
C22_Witness ==
    /\ pc = "done"
    /\ SelfEdges # {}
    /\ \E i \in DOMAIN diags : diags[i].text = "is already held when locking"
    /\ \E i \in DOMAIN ctx.callSites :
          LET cs == ctx.callSites[i]
          IN /\ cs.Callee \in DOMAIN ctx.funcFacts
             /\ \E t \in DOMAIN cs.HeldByStructType : \E h \in cs.HeldByStructType[t] :
                   [StructType |-> t, FieldIndex |-> h.FieldIndex]
                       \in ctx.funcFacts[cs.Callee].AcquiresTransitive

(***************************************************************************)
(* Properties of the pass as a whole.                                      *)
(***************************************************************************)
\* The diagnostics the phase about to run emits when the maps it ranges over
\* are visited in the given order.
PhaseReports(order) ==
    CASE pc = "detectAndReportLockOrderCycles" ->
            CycleReports(ctx, detectCycles(ctx.lockOrderGraph, order))
      [] pc = "checkCallersOfAcquireHelpers" -> AcquireHelperReports(ctx, order)
      [] pc = "reportDeferredLockLeaks" -> LeakReports(ctx, order)
      [] pc = "checkViolations" -> ViolationReports(ctx, order)
      [] pc = "checkInterproceduralViolations" -> InterproceduralReports(ctx, order)
      [] OTHER -> <<>>

\* C23: the diagnostics a phase emits, their texts, positions and order, are
\* the same whatever the order in which the maps are visited, so that two
\* runs over the same package report the same sequence.
C23_DiagnosticsIndependentOfMapOrder ==
    \A first, second \in MapOrders : PhaseReports(first) = PhaseReports(second)

(***************************************************************************)
(* Properties of guard inference.                                          *)
(***************************************************************************)
\* The mutex fields of the same base held at an observation, the field
\* itself excluded.
HeldIndexes(key, obs) ==
    {hmf.FieldIndex : hmf \in obs.SameBaseMutexFields} \ {key.FieldIndex}

\* The observations that count: the writes, or all when no write holds a
\* mutex.
Counted(key, observations) ==
    LET writes == {i \in DOMAIN observations : ~observations[i].IsRead}
    IN IF \E i \in writes : HeldIndexes(key, observations[i]) # {}
       THEN writes ELSE DOMAIN observations

CountAt(key, observations, idx) ==
    Cardinality({i \in Counted(key, observations) :
                    idx \in HeldIndexes(key, observations[i])})

\* idx has the highest count, and is the lowest index with that count.
IsMostFrequentLowest(key, observations, idx) ==
    /\ CountAt(key, observations, idx) > 0
    /\ \A other \in MutexFieldIndexes \ {idx} :
          \/ CountAt(key, observations, other) < CountAt(key, observations, idx)
          \/ /\ CountAt(key, observations, other) = CountAt(key, observations, idx)
             /\ idx < other

\* pickMostFrequentMutex with its counts map visited in the given order.
PickedIn(key, observations, writesOnly, order) ==
    PickBest(MutexCounts(key, observations, writesOnly),
             RangeOf(DOMAIN MutexCounts(key, observations, writesOnly), order), -1, 0)

GuardIn(key, observations, order) ==
    IF PickedIn(key, observations, TRUE, order) # -1
    THEN PickedIn(key, observations, TRUE, order)
    ELSE PickedIn(key, observations, FALSE, order)

InferredKeys ==
    {key \in DOMAIN ctx.observations :
        /\ key.StructType \in StructTypes
        /\ FilteredObservations(key) # <<>>
        /\ ~isImmutableField(FilteredObservations(key))}

C25_NoFieldGuardsItself ==
    \A key \in DOMAIN ctx.guards : ctx.guards[key].MutexFieldIndex # key.FieldIndex

\* The guard map holds an inferred guard and an imported one.
C25_Witness ==
    /\ pc = "done"
    /\ \E key \in DOMAIN ctx.guards : key.StructType \in StructTypes
    /\ \E key \in DOMAIN ctx.guards : key.StructType \in ImportedTypes

\* Entry points of the analysed functions, and the functions that a chain of
\* recorded call sites joins to one of them.
ConcurrentContextComputed ==
    pc \in {"collectInterproceduralLockOrderEdges", "detectAndReportLockOrderCycles",
            "computeReturnsHolding", "checkCallersOfAcquireHelpers",
            "reportDeferredLockLeaks", "reportDeferredUnlockOfUnlocked",
            "checkViolations", "checkInterproceduralViolations", "done"}

CallGraphNodes ==
    DOMAIN srcFuncs \cup detectConcurrentEntrypoints
    \cup {ctx.callSites[i].Caller : i \in DOMAIN ctx.callSites}
    \cup {ctx.callSites[i].Callee : i \in DOMAIN ctx.callSites}

CallsDirectly(caller, callee) ==
    \E i \in DOMAIN ctx.callSites :
        ctx.callSites[i].Caller = caller /\ ctx.callSites[i].Callee = callee

IsCallPath(path) ==
    \A i \in 1..(Len(path) - 1) : CallsDirectly(path[i], path[i + 1])

ReachableFromEntry(fn) ==
    \E n \in 1..Cardinality(CallGraphNodes) :
        \E path \in [1..n -> CallGraphNodes] :
            /\ path[1] \in detectConcurrentEntrypoints
            /\ path[n] = fn
            /\ IsCallPath(path)

\* C26: once the concurrent context is computed, a function is treated as
\* concurrent exactly when no entry point was detected, or it is an entry
\* point or a chain of recorded call sites leads from an entry point to it;
\* with an entry point detected, a function that no such chain reaches is not
\* treated as concurrent.
C26_ConcurrentIffNoEntryOrReachable ==
    ConcurrentContextComputed =>
        /\ \A fn \in CallGraphNodes :
              isConcurrent(ctx, fn) <=>
                  (detectConcurrentEntrypoints = {} \/ ReachableFromEntry(fn))
        /\ detectConcurrentEntrypoints # {} =>
              \A fn \in CallGraphNodes :
                  ~ReachableFromEntry(fn) => ~isConcurrent(ctx, fn)

\* An entry point is launched by a go statement, a function that is not an
\* entry point is reached from it by a call, and two functions are not
\* reached.
C26_Witness ==
    /\ pc = "done"
    /\ detectConcurrentEntrypoints # {}
    /\ \E fn \in DOMAIN srcFuncs :
          /\ fn \notin detectConcurrentEntrypoints
          /\ ReachableFromEntry(fn)
          /\ isConcurrent(ctx, fn)
    /\ Cardinality({fn \in DOMAIN srcFuncs : ~isConcurrent(ctx, fn)}) >= 2

\* C27: the observations of a field never hold two entries with the same
\* position and the same read/write flag, however often the block of the
\* access is walked.
C27_OneObservationPerFieldPosKind ==
    \A key \in DOMAIN ctx.observations :
        \A i, j \in DOMAIN ctx.observations[key] :
            (/\ ctx.observations[key][i].Pos = ctx.observations[key][j].Pos
             /\ ctx.observations[key][i].IsRead = ctx.observations[key][j].IsRead)
                => i = j

\* A block with an access was walked again with a merged lock state, and the
\* access is among the observations.
C27_Witness ==
    \E i \in DOMAIN log :
        /\ log[i].outcome = "merged"
        /\ \E instr \in Range(srcFuncs[log[i].fn].blocks[log[i].block].instrs) :
              /\ instr.op \in {"Store", "UnOp"}
              /\ \E key \in DOMAIN ctx.observations :
                    \E j \in DOMAIN ctx.observations[key] :
                        ctx.observations[key][j].Pos = instr.pos

\* The lines that carry a //mu:nolint comment, the lines that carry a
\* statement or a func keyword, and the first line with text below a line.
NolintLines == UNION {srcFuncs[fn].nolint : fn \in DOMAIN srcFuncs}

StatementPositions(fn) == {instr.pos : instr \in AllInstrs(fn)} \ {NoPos}

NonEmptyLines ==
    NolintLines
    \cup {LineOf(srcFuncs[fn].pos) : fn \in DOMAIN srcFuncs}
    \cup {LineOf(pos) : pos \in UNION {StatementPositions(fn) : fn \in DOMAIN srcFuncs}}

NextNonEmptyLine(line) ==
    LET below == {l \in NonEmptyLines : l > line}
    IN IF below = {} THEN 0 ELSE CHOOSE l \in below : \A m \in below : l <= m

AnnotationsParsed == pc # "parseAnnotations"

CarriesIgnore(fd) ==
    fd \in funcDecls /\ (srcFuncs[fd].muIgnore \/ srcFuncs[fd].ignoreLines # {})

\* The diagnostics positioned inside a declaration: those reported for it or
\* for a function literal in its body.
DiagnosticsInside(fd) ==
    {i \in DOMAIN diags :
        diags[i].fn \in DOMAIN srcFuncs /\ EnclosingDecl(diags[i].fn) = fd}

\* C29: no diagnostic is positioned inside a function declaration that
\* carries //mu:ignore in the comment group right above it or in its body.
C29_NoDiagnosticInsideIgnoredFunction ==
    \A fd \in DOMAIN srcFuncs : CarriesIgnore(fd) => DiagnosticsInside(fd) = {}

\* The call instruction behind a recorded call site, and the call sites of
\* a method call whose caller is constructor-like for the receiver's type and
\* has no publication of the receiver positioned before the call.
CallInstrAt(cs) ==
    CHOOSE instr \in AllInstrs(cs.Caller) : instr.op = "Call" /\ instr.pos = cs.Pos

Unpublished(cs) ==
    \A instr \in AllInstrs(cs.Caller) :
        (instr.op = "Publish" /\ instr.ref.base = CallInstrAt(cs).ref.base)
            => instr.pos >= cs.Pos

PrePublicationSites ==
    {i \in DOMAIN ctx.callSites :
        /\ ctx.callSites[i].Caller \in DOMAIN srcFuncs
        /\ CallInstrAt(ctx.callSites[i]).ref # NoRef
        /\ \/ srcFuncs[ctx.callSites[i].Caller].isInit
           \/ BaseType(CallInstrAt(ctx.callSites[i]).ref.base)
                  \in srcFuncs[ctx.callSites[i].Caller].returns
                       \cup srcFuncs[ctx.callSites[i].Caller].newNamed
        /\ Unpublished(ctx.callSites[i])}

RequiresOf(fn) == IF fn \in DOMAIN ctx.funcFacts THEN ctx.funcFacts[fn].Requires ELSE {}

\* The caller of site i has requirement mfk from an access of its own or
\* from another of its call sites.
RequiredOtherwise(i, mfk) ==
    \/ <<ctx.callSites[i].Caller, mfk>> \in InitialRequirements
    \/ \E j \in (DOMAIN ctx.callSites) \ PrePublicationSites :
          /\ ctx.callSites[j].Caller = ctx.callSites[i].Caller
          /\ mfk \in RequiresOf(ctx.callSites[j].Callee)
          /\ ~callerHoldsMutex(ctx.callSites[j], mfk)

MissingLockAt(cs) ==
    {i \in DOMAIN diags :
        diags[i].text = "must be held when calling" /\ diags[i].pos = cs.Pos}

NoRepeat(seq) == \A i, j \in DOMAIN seq : seq[i] = seq[j] => i = j

\* C31: every call of resolveLockRef returns within the step budget, having
\* expanded no phi twice and dereferenced no value twice, also on values
\* whose phis reference each other cyclically and on chains of dereferences.
C31_ResolutionTerminates ==
    resolver.phase = "returned" =>
        /\ resolver.ref.st.steps > 0
        /\ NoRepeat(resolver.ref.st.phis)
        /\ NoRepeat(resolver.ref.st.derefs)
        /\ Len(resolver.ref.st.phis) + Len(resolver.ref.st.derefs)
               <= Len(resolver.values)

\* A resolved lock reference whose base was reached through a dereference
\* and through two phis that are incoming values of each other.
C31_Witness ==
    /\ resolver.phase = "returned"
    /\ resolver.ref.kind = "fieldLock"
    /\ resolver.ref.st.derefs # <<>>
    /\ \E a, b \in Range(resolver.ref.st.phis) :
          /\ a # b
          /\ b \in Range(resolver.values[a].Edges)
          /\ a \in Range(resolver.values[b].Edges)

\* C32: the held set of a block's stored entry state only shrinks during a
\* function's walk: the first arrival stores the inbound state, a later
\* arrival either leaves the stored state alone or replaces it by its meet
\* with the inbound state, whose held set is a subset of the stored one, and
\* what the block's own instructions do is not seen in the stored state.
C32_EntryStateOnlyShrinks ==
    \A i \in DOMAIN log :
        /\ log[i].outcome = "first"
               => HeldRefs(log[i].after) = HeldRefs(log[i].inbound)
        /\ log[i].outcome \in {"same", "converged"}
               => HeldRefs(log[i].after) = HeldRefs(log[i].stored)
        /\ log[i].outcome = "merged"
               => /\ HeldRefs(log[i].after)
                        = HeldRefs(intersect(log[i].stored, log[i].inbound))
                  /\ HeldRefs(log[i].after) \subseteq HeldRefs(log[i].stored)

\* The lock states that arrived at the entry of a block so far.
ArrivedAt(fn, block) ==
    {log[i].inbound : i \in {j \in DOMAIN log : log[j].fn = fn /\ log[j].block = block}}

\* C33: an inconsistent-branch diagnostic naming a lock at a block is emitted
\* only if a lock of that name is held in exactly one of two lock states that
\* arrived at the entry of the block.
C33_InconsistentOnlyBetweenArrivedStates ==
    \A i \in DOMAIN diags :
        IsInconsistent(diags[i])
            => \E a, b \in ArrivedAt(diags[i].fn, diags[i].block) :
                  \E ref \in HeldRefs(a) \ HeldRefs(b) :
                      lockRefName(ref) = diags[i].name

\* C34: within one pass there are never two reports with the same position
\* and the same message.
C34_NoDiagnosticTwice ==
    \A i, j \in DOMAIN diags :
        (/\ diags[i].pos = diags[j].pos
         /\ diags[i].text = diags[j].text
         /\ diags[i].name = diags[j].name
         /\ diags[i].arg = diags[j].arg) => i = j

\* The leak candidates recorded for the returns of a function.
CandidatesOfFunc(c, fn) == {cand \in AllLeakCandidates(c) : cand.Fn = fn}

\* C35: no step of the walk of one function removes or changes the leak
\* candidates recorded for the returns of another function, returns without
\* a source position included.
C35_OtherFunctionsCandidatesKept ==
    [][\A fn \in DOMAIN srcFuncs :
          fn # fnIdx => CandidatesOfFunc(ctx', fn) = CandidatesOfFunc(ctx, fn)]_vars

\* The same-base held-mutex sets recorded for the accesses of a function.
ObservedHeld(fn) ==
    {obs.SameBaseMutexFields :
        obs \in {o \in UNION {Range(ctx.observations[key]) : key \in DOMAIN ctx.observations} :
                    o.Func = fn}}

\* C36: the same-base held-mutex set recorded for an access behind a
\* conditional is the same whichever arm of the conditional the walk takes
\* first.
C36_ObservationIndependentOfWalkOrder ==
    WalkDone => ObservedHeld(1) = ObservedHeld(2)

\* C37: every elementary directed cycle of the lock-order graph is returned
\* by detectCycles, up to rotation.
C37_EveryElementaryCycleReturned ==
    pc = "detectAndReportLockOrderCycles" =>
        \A order \in MapOrders : \A p \in CyclesOf(ctx.lockOrderGraph) :
            \E i \in DOMAIN detectCycles(ctx.lockOrderGraph, order) :
                IsRotation(KeyPairs(detectCycles(ctx.lockOrderGraph, order)[i]), KeyPairs(p))

\* The control-flow paths of a function from its entry to a return.
ReturnPaths(fn) ==
    LET blocks == srcFuncs[fn].blocks
    IN {p \in UNION {[1..n -> DOMAIN blocks] : n \in 1..Len(blocks)} :
          /\ p[1] = 1
          /\ \A i \in 1..(Len(p) - 1) : p[i + 1] \in Range(blocks[p[i]].succs)
          /\ blocks[p[Len(p)]].succs = <<>>}

RECURSIVE PathInstrs(_, _)
PathInstrs(fn, p) ==
    IF p = <<>> THEN <<>>
    ELSE srcFuncs[fn].blocks[Head(p)].instrs \o PathInstrs(fn, Tail(p))

\* The locks acquired along the path that are held at its return and have
\* no deferred unlock.
RECURSIVE HeldAlong(_, _, _)
HeldAlong(instrs, held, deferred) ==
    IF instrs = <<>> THEN held \ deferred
    ELSE LET instr == Head(instrs)
         IN IF instr.op = "Call" /\ instr.method \in {"Lock", "RLock"}
            THEN HeldAlong(Tail(instrs), held \cup {instr.ref}, deferred)
            ELSE IF instr.op = "Call" /\ instr.method \in {"Unlock", "RUnlock"}
            THEN HeldAlong(Tail(instrs), held \ {instr.ref}, deferred)
            ELSE IF instr.op = "Defer" /\ instr.method \in {"Unlock", "RUnlock"}
            THEN HeldAlong(Tail(instrs), held, deferred \cup {instr.ref})
            ELSE HeldAlong(Tail(instrs), held, deferred)

LeakedOnSomePath(fn) ==
    UNION {HeldAlong(PathInstrs(fn, p), {}, {}) : p \in ReturnPaths(fn)}

NamesFunctionAndLock(d, fn, ref) ==
    /\ d.fn = fn
    /\ d.name = lockRefName(ref)
    /\ IsLeak(d) \/ IsAcquireHelper(d) \/ IsInconsistent(d)

\* C38: when some path of a function reaches a return holding a lock that was
\* acquired in the function and has no deferred unlock on the path, the pass
\* emits a lock-leak, returns-while-holding or inconsistent-branch diagnostic
\* for that function and lock, unless the function is annotated or requires
\* the lock.
C38_LeakOnSomePathIsReported ==
    pc = "done" =>
        \A fn \in DOMAIN srcFuncs : \A ref \in LeakedOnSomePath(fn) :
            \/ \E i \in DOMAIN diags : NamesFunctionAndLock(diags[i], fn, ref)
            \/ functionRequiresMutex(ctx, fn, ref)
            \/ srcFuncs[fn].muIgnore
            \/ srcFuncs[fn].nolint # {}

\* The functions treated as concurrent had e been detected as an entry point
\* too.
ConcurrentWith(e, fn) ==
    isConcurrent([concurrentFuncs |->
                     concurrentFuncsOf(detectConcurrentEntrypoints \cup {e},
                                       ctx.callSites)], fn)

\* C39 as stated: a function treated as concurrent is still treated as
\* concurrent when one more entry point is detected.
C39_MonotoneInEntrypoints ==
    ConcurrentContextComputed =>
        \A e \in DOMAIN srcFuncs : \A fn \in DOMAIN srcFuncs :
            isConcurrent(ctx, fn) => ConcurrentWith(e, fn)

\* C39 amended: with an entry point detected, a function treated as
\* concurrent is still treated as concurrent when one more entry point is
\* detected.
C39_MonotoneOnceAnEntrypoint ==
    (ConcurrentContextComputed /\ detectConcurrentEntrypoints # {}) =>
        /\ ctx.concurrentFuncs
              = concurrentFuncsOf(detectConcurrentEntrypoints, ctx.callSites)
        /\ \A e \in DOMAIN srcFuncs : \A fn \in DOMAIN srcFuncs :
              isConcurrent(ctx, fn) => ConcurrentWith(e, fn)

\* An entry point is detected, and with one more some function that is not
\* treated as concurrent would be, next to those that already are.
C39_Witness ==
    /\ ConcurrentContextComputed
    /\ detectConcurrentEntrypoints # {}
    /\ \E e \in DOMAIN srcFuncs \ detectConcurrentEntrypoints :
          /\ \E fn \in DOMAIN srcFuncs : ~isConcurrent(ctx, fn) /\ ConcurrentWith(e, fn)
          /\ \E fn \in DOMAIN srcFuncs : isConcurrent(ctx, fn) /\ ConcurrentWith(e, fn)

\* A closed chain of edges of the graph through distinct keys.
IsClosedChain(g, cycle) ==
    /\ cycle # <<>>
    /\ \A i \in DOMAIN cycle : cycle[i] \in GraphEdges(g)
    /\ \A i \in 1..(Len(cycle) - 1) : cycle[i].To = cycle[i + 1].From
    /\ cycle[Len(cycle)].To = cycle[1].From
    /\ \A i, j \in DOMAIN cycle : cycle[i].From = cycle[j].From => i = j

\* C40: every cycle detectCycles returns is a closed chain of edges of the
\* graph: each edge ends where the next starts, the last ends where the first
\* starts, and no key is the From of two of its edges.
C40_ReturnedCyclesAreClosedChains ==
    pc = "detectAndReportLockOrderCycles" =>
        \A order \in MapOrders :
            \A i \in DOMAIN detectCycles(ctx.lockOrderGraph, order) :
                IsClosedChain(ctx.lockOrderGraph, detectCycles(ctx.lockOrderGraph, order)[i])

\* A returned cycle through three keys, in a graph with a fourth edge.
C40_Witness ==
    /\ pc = "detectAndReportLockOrderCycles"
    /\ Cardinality(GraphEdges(ctx.lockOrderGraph)) > 3
    /\ \E order \in MapOrders :
          \E i \in DOMAIN detectCycles(ctx.lockOrderGraph, order) :
              Len(detectCycles(ctx.lockOrderGraph, order)[i]) = 3

====
